---- MODULE Spec2Model ----
(***************************************************************************)
(* A model of the LinkedIn post generator scripts:                         *)
(*   - scripts/generate.py: the context file's angle history               *)
(*     (update_context_with_new_post) and the insight loader's top         *)
(*     quartile (load_performance_insights);                               *)
(*   - scripts/analyze_performance.py: loading the post records, the       *)
(*     engagement rate and the five analyses main() runs in order.         *)
(*                                                                         *)
(* Numbers the code computes as floats are modelled as exact rationals     *)
(* <<numerator, denominator>> in lowest terms; float rounding is not       *)
(* modelled.                                                               *)
(***************************************************************************)
EXTENDS Integers, Sequences, FiniteSets, TLC

VARIABLES
    ctxFile,      \* the context YAML file: a sequence of [k, v] pairs in key order
    nUpdates,     \* number of completed update_context_with_new_post calls
    lastEntry,    \* the entry the most recent completed update inserted
    prevAngles,   \* the history the most recent completed update loaded
    pc,           \* per generator invocation: "idle", "loaded", "done"
    ctxData,      \* per invocation: the context_data it loaded
    entry,        \* per invocation: the entry it is adding
    lastWriter,   \* the invocation that wrote the context file last, 0 if none
    files,        \* the examples directory: what each *.json file parses to, in glob order
    apc,          \* where the analyzer run (or the generator's insight loading) stands
    posts,        \* analyze_performance.py: the posts main() loaded
    timing,       \* what analyze_timing built and printed
    chars,        \* what analyze_post_characteristics built and printed
    performers,   \* what analyze_top_performers printed
    patterns,     \* what analyze_content_patterns built and printed
    recs,         \* what generate_recommendations built and printed
    insights,     \* generate.py: what load_performance_insights returned
    err,          \* the exception that ended the run, "" if none
    warnings,     \* the files (by position) a loader printed a "Warning: ..." line for
    gpc,          \* where the generate.py or analyze_style.py run stands
    args,         \* generate.py: the parsed command line
    env,          \* which of config.yaml, the style guide and the named context exist
    inspirations, \* what load_inspiration_notes returned
    variant_num,  \* the variant the loop of main() is at
    prompt,       \* the prompt built for that variant: a sequence of sections
    calls,        \* the invocations of the external generator so far
    all_drafts,   \* the drafts saved so far
    exit,         \* the exit status of the run, None while it runs
    message,      \* the error output that ended the run, "" if none
    example_posts, \* analyze_style.py: the posts read_example_posts returned
    cell,         \* convert_excel_to_json.py: the value parse_number is given
    number,       \* what parse_number returned, None before the call
    excel_files,  \* the workbooks of the examples directory, in glob order
    cpc,          \* where the conversion run stands
    file_num,     \* the workbook the loop of convert_all_excel_files is at
    exdir,        \* the JSON files written to the examples directory: [name, text]
    images_dir,   \* the files written to examples/images: [name, text]
    all_posts,    \* the records converted so far
    conv_errors,  \* the workbooks an "Error processing" line was printed for
    contexts,     \* manage_context.py: the contexts directory, name -> file or None
    command,      \* the last command given to manage_context.py
    before,       \* the contexts directory as that command found it
    result,       \* its exit status and the error it printed
    ncommands     \* the commands run so far

ctxVars == <<ctxFile, nUpdates, lastEntry, prevAngles>>
raceVars == <<pc, ctxData, entry, lastWriter>>
aggVars == <<files, apc, posts, timing, chars, performers, patterns, recs, insights, err,
            warnings>>
genVars == <<gpc, args, env, inspirations, variant_num, prompt, calls, all_drafts, exit,
            message, example_posts>>
convVars == <<cell, number, excel_files, cpc, file_num, exdir, images_dir, all_posts,
             conv_errors>>
mgrVars == <<contexts, command, before, result, ncommands>>
extVars == <<genVars, convVars, mgrVars>>

----------------------------------------------------------------------------
(* Bounds of the model *)

NumSummaries == 2
MaxUpdates == 3
MaxFiles == 3
MaxRankedFiles == 8
MaxVariants == 2
MaxCellLen == 4

\* rows of a sheet, entries of an archive, workbooks of a directory
MaxRows == 4
MaxEntries == 3
MaxBooks == 2

\* commands given to manage_context.py, one after the other
MaxCommands == 2

\* workbooks of a directory that is converted and then analysed
MaxPipeBooks == 3

(* Program constants *)

HistoryCap == 10

----------------------------------------------------------------------------
(* Small helpers *)

Min(a, b) == IF a <= b THEN a ELSE b
Max(a, b) == IF a >= b THEN a ELSE b

NoValue == "NoValue"

----------------------------------------------------------------------------
(* The context file (generate.py, update_context_with_new_post) *)

AnglesKey == "recent_angles_covered"

\* 'key in context_data'
HasKey(data, key) == \E i \in 1..Len(data) : data[i].k = key

\* context_data[key]
GetKey(data, key) ==
    LET i == CHOOSE i \in 1..Len(data) : data[i].k = key IN data[i].v

\* a faulty variant: the key is removed and added again, so it goes last
SetKeyMovingLast(data, key, value) ==
    Append(SelectSeq(data, LAMBDA p : p.k # key), [k |-> key, v |-> value])

\* context_data[key] = value: an existing key keeps its position, a new key
\* goes last (dict insertion order, kept by yaml.dump(sort_keys=False))
SetKey(data, key, value) ==
    IF HasKey(data, key)
    THEN [i \in 1..Len(data) |->
            IF data[i].k = key THEN [k |-> key, v |-> value] ELSE data[i]]
    ELSE Append(data, [k |-> key, v |-> value])

\* f"{date_str}: {topic_summary}"
FormatEntry(date, summary) == <<date, summary>>

\* list.insert(0, e)
InsertFront(list, e) == <<e>> \o list

\* faulty variants of the slice: list[:11] and list[-10:]
KeepRecentOffByOne(list) == SubSeq(list, 1, Min(Len(list), HistoryCap + 1))
KeepRecentTail(list) == SubSeq(list, Max(1, Len(list) - HistoryCap + 1), Len(list))

\* list[:10]
KeepRecent(list) == SubSeq(list, 1, Min(Len(list), HistoryCap))

\* lines 431-439: the new context_data from the one loaded
UpdatedContext(data, e) ==
    LET d1 == IF ~HasKey(data, AnglesKey) THEN SetKey(data, AnglesKey, <<>>) ELSE data
        d2 == SetKey(d1, AnglesKey, InsertFront(GetKey(d1, AnglesKey), e))
    IN  SetKey(d2, AnglesKey, KeepRecent(GetKey(d2, AnglesKey)))

\* the stored history, empty when the key is missing
Angles(data) == IF HasKey(data, AnglesKey) THEN GetKey(data, AnglesKey) ELSE <<>>

Summaries == 1..NumSummaries
Today == 2
NewEntries == {FormatEntry(Today, s) : s \in Summaries}

\* histories a context file can hold before the run: entries of earlier days
OldEntry(i) == FormatEntry(1, i)
OldHistory(n) == [i \in 1..n |-> OldEntry(i)]

TopicPair == [k |-> "topic", v |-> "t"]
FreqPair == [k |-> "posting_frequency", v |-> "weekly"]

InitialContexts ==
    {<<TopicPair, FreqPair>>}
    \cup {<<TopicPair, [k |-> AnglesKey, v |-> OldHistory(n)], FreqPair>> :
            n \in 0..(HistoryCap + 1)}

\* update_context_with_new_post as one call
UpdateContext(e) ==
    /\ nUpdates < MaxUpdates
    /\ ctxFile' = UpdatedContext(ctxFile, e)
    /\ nUpdates' = nUpdates + 1
    /\ lastEntry' = e
    /\ prevAngles' = Angles(ctxFile)
    /\ UNCHANGED <<raceVars, aggVars, extVars>>

vars == <<ctxVars, raceVars, aggVars, extVars>>

\* nothing analysed yet: the results at their empty values
ResultsEmpty ==
    /\ posts = <<>>
    /\ timing = [day_data |-> <<>>, time_data |-> <<>>, days |-> <<>>, times |-> <<>>]
    /\ chars = [length_buckets |-> <<>>, format_data |-> <<>>, type_data |-> <<>>,
                lengths |-> <<>>, formats |-> <<>>, types |-> <<>>]
    /\ performers = <<>>
    /\ patterns = [top_posts |-> <<>>, bottom_posts |-> <<>>, topics |-> <<>>,
                   goals |-> <<>>]
    /\ recs = [top_posts |-> <<>>, avg_length |-> 0, formats |-> <<>>,
               best_hour |-> <<>>, best_day |-> <<>>]
    /\ insights = [none |-> TRUE]
    /\ err = ""
    /\ warnings = <<>>

\* no analyzer or insight run
AggIdle ==
    /\ files = <<>>
    /\ apc = "idle"
    /\ ResultsEmpty

\* no generate.py or analyze_style.py run
GenIdle ==
    /\ gpc = "idle"
    /\ args = [script |-> "generate.py", mode |-> "manual", topic_goal |-> TRUE,
               variants |-> 1, update_context |-> FALSE, angle_summary |-> <<>>]
    /\ env = [config |-> TRUE, style_guide |-> TRUE, context |-> TRUE]
    /\ inspirations = <<>>
    /\ variant_num = 0
    /\ prompt = <<>>
    /\ calls = <<>>
    /\ all_drafts = <<>>
    /\ exit = <<>>
    /\ message = ""
    /\ example_posts = <<>>

\* no converter call
ConvIdle ==
    /\ cell = [kind |-> "nan"]
    /\ number = <<>>
    /\ excel_files = <<>>
    /\ cpc = "idle"
    /\ file_num = 0
    /\ exdir = <<>>
    /\ images_dir = <<>>
    /\ all_posts = <<>>
    /\ conv_errors = <<>>

\* the names a context can have
ContextNames == {"ai", "career"}

\* no manage_context.py command yet, and no context
MgrIdle ==
    /\ contexts = [n \in ContextNames |-> <<>>]
    /\ command = [command |-> "none", name |-> "", answer |-> <<>>]
    /\ before = contexts
    /\ result = [exit |-> <<>>, error |-> ""]
    /\ ncommands = 0

ExtIdle == GenIdle /\ ConvIdle /\ MgrIdle

Procs == {1, 2}

InitCtx ==
    /\ ctxFile \in InitialContexts
    /\ nUpdates = 0
    /\ lastEntry = NoValue
    /\ prevAngles = <<>>
    /\ pc = [p \in Procs |-> "idle"]
    /\ ctxData = [p \in Procs |-> <<>>]
    /\ entry = [p \in Procs |-> NoValue]
    /\ lastWriter = 0
    /\ AggIdle
    /\ ExtIdle

NextCtx == \E e \in NewEntries : UpdateContext(e)

SpecCtx == InitCtx /\ [][NextCtx]_vars

----------------------------------------------------------------------------
(* Two generator invocations updating the same context file.  Each runs     *)
(* update_context_with_new_post once; the read (lines 428-429) and the      *)
(* write (lines 441-442) are separate steps with nothing held between them. *)

\* lines 428-429: with open(context_path, 'r'): context_data = yaml.safe_load(f)
LoadContext(p, e) ==
    /\ pc[p] = "idle"
    /\ ctxData' = [ctxData EXCEPT ![p] = ctxFile]
    /\ entry' = [entry EXCEPT ![p] = e]
    /\ pc' = [pc EXCEPT ![p] = "loaded"]
    /\ UNCHANGED <<ctxVars, lastWriter, aggVars, extVars>>

\* a faulty variant: the write re-reads the file, as it would under a lock
WrittenContextFresh(p) == UpdatedContext(ctxFile, entry[p])

\* what invocation p dumps: its own copy, modified
WrittenContext(p) == UpdatedContext(ctxData[p], entry[p])

\* lines 431-442: modify the loaded copy and yaml.dump it over the file
StoreContext(p) ==
    /\ pc[p] = "loaded"
    /\ ctxFile' = WrittenContext(p)
    /\ nUpdates' = nUpdates + 1
    /\ lastEntry' = entry[p]
    /\ prevAngles' = Angles(ctxData[p])
    /\ lastWriter' = p
    /\ pc' = [pc EXCEPT ![p] = "done"]
    /\ UNCHANGED <<ctxData, entry, aggVars, extVars>>

NextRace ==
    \E p \in Procs :
        \/ \E e \in NewEntries : LoadContext(p, e)
        \/ StoreContext(p)

SpecRace == InitCtx /\ [][NextRace]_vars

----------------------------------------------------------------------------
(* Exact rationals <<n, d>>, d > 0, in lowest terms, for the floats of      *)
(* analyze_performance.py                                                   *)

RECURSIVE GCD(_, _)
GCD(a, b) == IF b = 0 THEN a ELSE GCD(b, a % b)

Norm(n, d) == LET g == GCD(n, d) IN <<n \div g, d \div g>>

IntRat(n) == <<n, 1>>
Zero == IntRat(0)
RatAdd(x, y) == Norm(x[1] * y[2] + y[1] * x[2], x[2] * y[2])
RatDivInt(x, k) == Norm(x[1], x[2] * k)
RatMulInt(x, k) == Norm(x[1] * k, x[2])
RatLess(x, y) == x[1] * y[2] < y[1] * x[2]

\* sum(rates) for a list of rationals, left to right from 0
RECURSIVE RatSum(_)
RatSum(rates) ==
    IF rates = <<>> THEN Zero
    ELSE RatAdd(RatSum(SubSeq(rates, 1, Len(rates) - 1)), rates[Len(rates)])

----------------------------------------------------------------------------
(* Post records.  An optional JSON value is <<>> (the key is missing; for a *)
(* date or a time also null, which the code treats alike) or <<v>>.         *)
(* A date string is a record: kind "ok" with the day number n it    *)
(* denotes (day 0 is a Monday), or kind "bad" for a string strptime         *)
(* rejects; a time string likewise, with its hour h and minute m.           *)

\* dict.get(key, default)
GetOr(opt, default) == IF opt = <<>> THEN default ELSE opt[1]

Some(v) == <<v>>
None == <<>>

WeekdayNames ==
    <<"Monday", "Tuesday", "Wednesday", "Thursday", "Friday", "Saturday", "Sunday">>

\* datetime.strptime(date_str, "%Y-%m-%d").strftime("%A")
Weekday(date) == WeekdayNames[(date.n % 7) + 1]

OkDate(n) == Some([kind |-> "ok", n |-> n])
BadDate == Some([kind |-> "bad", n |-> 0])
OkTime(h, m) == Some([kind |-> "ok", h |-> h, m |-> m])
BadTime == Some([kind |-> "bad", h |-> 0, m |-> 0])

FormatKeys ==
    <<"has_image", "has_video", "has_link", "has_hashtags", "has_emoji",
      "has_list", "has_question">>

Engagement(imp, rea, com, sha) ==
    [impressions |-> imp, reactions |-> rea, comments |-> com, shares |-> sha]

\* content, engagement, metadata.date, metadata.time, character_count, the
\* format flags that are true, type, context.topic, context.goal
Post(content, eng, date, time, cc, flags, type, topic, goal) ==
    [content |-> content,
     engagement |-> eng,
     metadata |-> [date |-> date, time |-> time],
     post_characteristics |-> [character_count |-> cc, flags |-> flags, type |-> type],
     context |-> [topic |-> topic, goal |-> goal]]

\* bool(data.get('content')), bool(data.get('engagement'))
Truthy(content) == content # ""
EngagementTruthy(eng) ==
    \/ eng.impressions # None
    \/ eng.reactions # None
    \/ eng.comments # None
    \/ eng.shares # None

PostA == Post("a", Engagement(Some(100), Some(10), None, None),
              OkDate(0), OkTime(9, 30), Some(400), {"has_image"},
              Some("image"), Some("ai"), Some("educate"))
PostB == Post("b", Engagement(Some(200), Some(5), Some(3), Some(2)),
              OkDate(1), OkTime(9, 5), Some(800), {"has_list", "has_question"},
              Some("text_only"), Some("career"), Some("engage"))
PostC == Post("c", Engagement(Some(200), Some(10), Some(0), Some(0)),
              OkDate(7), OkTime(14, 0), Some(1200), {"has_image", "has_list"},
              Some("image"), Some("ai"), Some("engage"))
PostD == Post("d", Engagement(Some(0), Some(7), Some(1), Some(1)),
              BadDate, None, Some(1600), {"has_link"},
              None, None, None)
PostE == Post("e", Engagement(None, None, Some(4), None),
              None, BadTime, None, {"has_question"},
              Some("text_only"), Some("career"), None)
PostF == Post("f", Engagement(Some(100), Some(4), Some(3), Some(3)),
              OkDate(2), OkTime(14, 30), Some(500), {"has_hashtags", "has_emoji"},
              Some("link"), Some("ai"), Some("educate"))
PostG == Post("g", Engagement(Some(50), Some(5), Some(3), Some(2)),
              OkDate(3), OkTime(18, 0), Some(1001), {"has_video", "has_link"},
              Some("video"), Some("career"), Some("educate"))

\* what json.load gives for one file of the examples directory
Malformed == [kind |-> "malformed"]
ListFile == [kind |-> "list"]
DictFile(data) == [kind |-> "dict", data |-> data]

NoContent == [PostA EXCEPT !.content = ""]
NoEngagement == [PostB EXCEPT !.engagement = Engagement(None, None, None, None)]

FilePool ==
    {DictFile(x) : x \in {PostA, PostB, PostC, PostD, PostE, PostF, PostG,
                          NoContent, NoEngagement}}
    \cup {Malformed, ListFile}

\* lines 36-47: a file is kept when it parses to a dict with content and
\* engagement; a list (all_posts.json) has no .get and is skipped by the
\* except clause, like malformed JSON
Validates(file) ==
    /\ file.kind = "dict"
    /\ Truthy(file.data.content)
    /\ EngagementTruthy(file.data.engagement)

RECURSIVE LoadedPosts(_)
LoadedPosts(fs) ==
    IF fs = <<>> THEN <<>>
    ELSE LET rest == LoadedPosts(SubSeq(fs, 1, Len(fs) - 1))
             f == fs[Len(fs)]
         IN  IF Validates(f) THEN Append(rest, f.data) ELSE rest

\* lines 44-47: both except clauses of load_posts_with_metadata print a
\* "Warning: ..., skipping..." line naming the file: unparsable JSON, and a
\* list, which has no .get
Raises(file) == file.kind \in {"malformed", "list"}

WarnedFiles(fs) == SelectSeq([i \in 1..Len(fs) |-> i], LAMBDA i : Raises(fs[i]))

\* a faulty variant: the shares are left out of the sum
EngagementRateNoShares(post) ==
    LET engagement == post.engagement
        impressions == GetOr(engagement.impressions, 0)
    IN  IF impressions = 0
        THEN Zero
        ELSE RatMulInt(RatDivInt(IntRat(GetOr(engagement.reactions, 0)
                                        + GetOr(engagement.comments, 0)),
                                 impressions), 100)

\* calculate_engagement_rate
EngagementRate(post) ==
    LET engagement == post.engagement
        impressions == GetOr(engagement.impressions, 0)
    IN  IF impressions = 0
        THEN Zero
        ELSE LET reactions == GetOr(engagement.reactions, 0)
                 comments == GetOr(engagement.comments, 0)
                 shares == GetOr(engagement.shares, 0)
             IN  RatMulInt(RatDivInt(IntRat(reactions + comments + shares),
                                     impressions), 100)

----------------------------------------------------------------------------
(* Dicts keep insertion order: a dict is a sequence of entries with a key.  *)
(* A list of rates remembers, with each rate r, the index i of the post it  *)
(* was computed from.                                                       *)

HasEntry(dict, key) == \E j \in 1..Len(dict) : dict[j].key = key

Rates(tagged) == [j \in 1..Len(tagged) |-> tagged[j].r]

\* a faulty variant: an unstable ordering, equal keys come out in reverse
InsertDescUnstable(sorted, x) ==
    LET pos == Cardinality({j \in 1..Len(sorted) :
                              RatLess(x.sortkey, sorted[j].sortkey)})
    IN  SubSeq(sorted, 1, pos) \o <<x>> \o SubSeq(sorted, pos + 1, Len(sorted))

\* sorted(items, key=..., reverse=True) and list.sort(key=..., reverse=True):
\* stable, so items with equal keys keep their order.  Items carry their key
\* in the field sortkey.
InsertDesc(sorted, x) ==
    LET pos == Cardinality({j \in 1..Len(sorted) :
                              ~RatLess(sorted[j].sortkey, x.sortkey)})
    IN  SubSeq(sorted, 1, pos) \o <<x>> \o SubSeq(sorted, pos + 1, Len(sorted))

RECURSIVE SortedDesc(_)
SortedDesc(items) ==
    IF items = <<>> THEN <<>>
    ELSE InsertDesc(SortedDesc(SubSeq(items, 1, Len(items) - 1)), items[Len(items)])

\* seq[:n]
Take(seq, n) == SubSeq(seq, 1, Min(Len(seq), n))

----------------------------------------------------------------------------
(* analyze_timing *)

TopDays == 3
TopTimes == 5

\* a faulty variant: a date that does not parse is filed under a bucket of its own
DayOfOrUnknown(post) ==
    LET date_str == post.metadata.date
    IN  IF date_str = None THEN None
        ELSE IF date_str[1].kind = "ok" THEN Some(Weekday(date_str[1]))
        ELSE Some("Unknown")

\* lines 81-89: the day bucket of a post, None when the date is missing or
\* strptime raises
DayOf(post) ==
    LET date_str == post.metadata.date
    IN  IF date_str = None THEN None
        ELSE IF date_str[1].kind = "ok" THEN Some(Weekday(date_str[1]))
        ELSE None

\* lines 91-99: the hour of a post (its bucket is "HH:00-HH:59"), None when the
\* time is missing or int() raises
HourOf(post) ==
    LET time_str == post.metadata.time
    IN  IF time_str = None THEN None
        ELSE IF time_str[1].kind = "ok" THEN Some(time_str[1].h)
        ELSE None

\* a faulty variant: the running total is overwritten, not added to
AddTimingLastOnly(data, key, i, rate) ==
    IF HasEntry(data, key)
    THEN [j \in 1..Len(data) |->
            IF data[j].key = key
            THEN [key |-> key, count |-> data[j].count + 1,
                  total_engagement |-> rate,
                  posts |-> Append(data[j].posts, i)]
            ELSE data[j]]
    ELSE Append(data, [key |-> key, count |-> 1,
                       total_engagement |-> RatAdd(Zero, rate), posts |-> <<i>>])

\* data[key]['count'] += 1; ['total_engagement'] += rate; ['posts'].append(post)
\* on a defaultdict: a new key starts at count 0, total 0, no posts
AddTiming(data, key, i, rate) ==
    IF HasEntry(data, key)
    THEN [j \in 1..Len(data) |->
            IF data[j].key = key
            THEN [key |-> key, count |-> data[j].count + 1,
                  total_engagement |-> RatAdd(data[j].total_engagement, rate),
                  posts |-> Append(data[j].posts, i)]
            ELSE data[j]]
    ELSE Append(data, [key |-> key, count |-> 1,
                       total_engagement |-> RatAdd(Zero, rate), posts |-> <<i>>])

\* lines 74-99, the day_data after the first k posts
RECURSIVE DayData(_, _)
DayData(ps, k) ==
    IF k = 0 THEN <<>>
    ELSE LET prev == DayData(ps, k - 1)
             day == DayOf(ps[k])
         IN  IF day = None THEN prev
             ELSE AddTiming(prev, day[1], k, EngagementRate(ps[k]))

\* lines 74-99, the time_data after the first k posts
RECURSIVE TimeData(_, _)
TimeData(ps, k) ==
    IF k = 0 THEN <<>>
    ELSE LET prev == TimeData(ps, k - 1)
             hour == HourOf(ps[k])
         IN  IF hour = None THEN prev
             ELSE AddTiming(prev, hour[1], k, EngagementRate(ps[k]))

\* lines 104 and 112: sorted(data.items(), key=total/count, reverse=True)
SortedTiming(data) ==
    SortedDesc([j \in 1..Len(data) |->
        [key |-> data[j].key, count |-> data[j].count,
         total_engagement |-> data[j].total_engagement,
         sortkey |-> RatDivInt(data[j].total_engagement, data[j].count)]])

\* the lines printed for the first n of them
TimingLines(data, n) ==
    LET best == Take(SortedTiming(data), n)
    IN  [j \in 1..Len(best) |->
            [bucket |-> best[j].key,
             avg |-> RatDivInt(best[j].total_engagement, best[j].count),
             count |-> best[j].count]]

\* what analyze_timing builds and prints; nothing is printed for an empty dict
TimingResult(ps) ==
    LET day_data == DayData(ps, Len(ps))
        time_data == TimeData(ps, Len(ps))
    IN  [day_data |-> day_data,
         time_data |-> time_data,
         days |-> TimingLines(day_data, TopDays),
         times |-> TimingLines(time_data, TopTimes)]

----------------------------------------------------------------------------
(* analyze_post_characteristics *)

LengthNames ==
    <<"Short (0-500 chars)", "Medium (501-1000 chars)",
      "Long (1001-1500 chars)", "Very Long (1501+ chars)">>

ShortMax == 500
MediumMax == 1000
LongMax == 1500

\* a faulty variant: the bounds are exclusive, so 500, 1000 and 1500 fall one higher
LengthBucketExclusive(post) ==
    LET char_count == GetOr(post.post_characteristics.character_count, 0)
    IN  IF char_count < ShortMax THEN 1
        ELSE IF char_count < MediumMax THEN 2
        ELSE IF char_count < LongMax THEN 3
        ELSE 4

\* lines 133-143: the index in LengthNames of the bucket a post goes to
LengthBucket(post) ==
    LET char_count == GetOr(post.post_characteristics.character_count, 0)
    IN  IF char_count <= ShortMax THEN 1
        ELSE IF char_count <= MediumMax THEN 2
        ELSE IF char_count <= LongMax THEN 3
        ELSE 4

\* the rates of the posts among the first k that the loop appends, in input
\* order; pick[i] is the condition of the append for post i
RECURSIVE RatesWhere(_, _, _)
RatesWhere(ps, k, pick) ==
    IF k = 0 THEN <<>>
    ELSE LET prev == RatesWhere(ps, k - 1, pick)
         IN  IF pick[k]
             THEN Append(prev, [i |-> k, r |-> EngagementRate(ps[k])])
             ELSE prev

\* lines 125-143
LengthBuckets(ps) ==
    [b \in 1..Len(LengthNames) |->
        [key |-> LengthNames[b],
         rates |-> RatesWhere(ps, Len(ps),
                              [i \in 1..Len(ps) |-> LengthBucket(ps[i]) = b])]]

\* lines 152-168: chars.get(key, False)
FormatData(ps) ==
    [b \in 1..Len(FormatKeys) |->
        [key |-> FormatKeys[b],
         rates |-> RatesWhere(ps, Len(ps),
                              [i \in 1..Len(ps) |->
                                 FormatKeys[b] \in ps[i].post_characteristics.flags])]]

\* lines 146-149 and 171-175: one line per bucket that has rates, in dict order
RECURSIVE RateLines(_, _)
RateLines(buckets, k) ==
    IF k = 0 THEN <<>>
    ELSE LET prev == RateLines(buckets, k - 1)
             rates == Rates(buckets[k].rates)
         IN  IF rates # <<>>
             THEN Append(prev, [bucket |-> buckets[k].key,
                                avg |-> RatDivInt(RatSum(rates), Len(rates)),
                                count |-> Len(rates)])
             ELSE prev

\* lines 178-182: type_data[post_type].append(rate) on a defaultdict(list)
AddRate(data, key, i, rate) ==
    IF HasEntry(data, key)
    THEN [j \in 1..Len(data) |->
            IF data[j].key = key
            THEN [key |-> key, rates |-> Append(data[j].rates, [i |-> i, r |-> rate])]
            ELSE data[j]]
    ELSE Append(data, [key |-> key, rates |-> <<[i |-> i, r |-> rate]>>])

\* .get('type', 'unknown')
TypeOf(post) == GetOr(post.post_characteristics.type, "unknown")

RECURSIVE TypeData(_, _)
TypeData(ps, k) ==
    IF k = 0 THEN <<>>
    ELSE AddRate(TypeData(ps, k - 1), TypeOf(ps[k]), k, EngagementRate(ps[k]))

\* the type names in the order Python compares strings
TypeOrder == <<"image", "link", "text_only", "unknown", "video">>

\* line 185: sorted(type_data.items()), the entries by name
RECURSIVE SortedByName(_, _)
SortedByName(data, k) ==
    IF k = 0 THEN <<>>
    ELSE LET prev == SortedByName(data, k - 1)
         IN  IF HasEntry(data, TypeOrder[k])
             THEN Append(prev, data[CHOOSE j \in 1..Len(data) : data[j].key = TypeOrder[k]])
             ELSE prev

\* what analyze_post_characteristics builds and prints
CharacteristicsResult(ps) ==
    LET length_buckets == LengthBuckets(ps)
        format_data == FormatData(ps)
        type_data == TypeData(ps, Len(ps))
        by_name == SortedByName(type_data, Len(TypeOrder))
    IN  [length_buckets |-> length_buckets,
         format_data |-> format_data,
         type_data |-> type_data,
         lengths |-> RateLines(length_buckets, Len(length_buckets)),
         formats |-> RateLines(format_data, Len(format_data)),
         types |-> RateLines(by_name, Len(by_name))]

----------------------------------------------------------------------------
(* analyze_top_performers, analyze_content_patterns, generate_recommendations *)

TopPosts == 5
TopTopics == 5
QuartileDivisor == 4
MajorityPercent == 50

\* posts_with_rate = [(post, rate) ...]; .sort(key=rate, reverse=True).
\* A post is named by its index i in posts.
PostsWithRate(ps) ==
    SortedDesc([i \in 1..Len(ps) |-> [i |-> i, sortkey |-> EngagementRate(ps[i])]])

\* a faulty variant: the quartile is rounded up
QuartileSizeCeil(n) == Max(1, (n + QuartileDivisor - 1) \div QuartileDivisor)

\* max(1, len(posts_with_rate) // 4)
QuartileSize(n) == Max(1, n \div QuartileDivisor)

\* [p for p, r in posts_with_rate[:size]]
TopOf(ranked) ==
    LET best == Take(ranked, QuartileSize(Len(ranked)))
    IN  [j \in 1..Len(best) |-> best[j].i]

\* [p for p, r in posts_with_rate[-size:]]
BottomOf(ranked) ==
    LET size == QuartileSize(Len(ranked))
        tail == SubSeq(ranked, Max(1, Len(ranked) - size + 1), Len(ranked))
    IN  [j \in 1..Len(tail) |-> tail[j].i]

\* counts[label] += 1 on a defaultdict(int), for the first k labels
RECURSIVE CountLabels(_, _)
CountLabels(labels, k) ==
    IF k = 0 THEN <<>>
    ELSE LET prev == CountLabels(labels, k - 1)
             key == labels[k]
         IN  IF HasEntry(prev, key)
             THEN [j \in 1..Len(prev) |->
                     IF prev[j].key = key
                     THEN [key |-> key, count |-> prev[j].count + 1]
                     ELSE prev[j]]
             ELSE Append(prev, [key |-> key, count |-> 1])

\* sorted(counts.items(), key=count, reverse=True)
SortedByCount(counts) ==
    LET sorted == SortedDesc([j \in 1..Len(counts) |->
                        [key |-> counts[j].key, count |-> counts[j].count,
                         sortkey |-> IntRat(counts[j].count)]])
    IN  [j \in 1..Len(sorted) |-> [key |-> sorted[j].key, count |-> sorted[j].count]]

\* what analyze_top_performers prints: the first five by rate
TopPerformersResult(ps) ==
    LET best == Take(PostsWithRate(ps), TopPosts)
    IN  [j \in 1..Len(best) |-> [i |-> best[j].i, rate |-> best[j].sortkey]]

\* what analyze_content_patterns builds and prints
ContentPatternsResult(ps) ==
    LET ranked == PostsWithRate(ps)
        top_posts == TopOf(ranked)
        top_topics == [j \in 1..Len(top_posts) |->
                          GetOr(ps[top_posts[j]].context.topic, "unknown")]
        top_goals == [j \in 1..Len(top_posts) |->
                          GetOr(ps[top_posts[j]].context.goal, "unknown")]
    IN  [top_posts |-> top_posts,
         bottom_posts |-> BottomOf(ranked),
         topics |-> Take(SortedByCount(CountLabels(top_topics, Len(top_topics))),
                         TopTopics),
         goals |-> SortedByCount(CountLabels(top_goals, Len(top_goals)))]

\* sum(character_count of the posts named by idx)
RECURSIVE SumCharCount(_, _)
SumCharCount(ps, idx) ==
    IF idx = <<>> THEN 0
    ELSE SumCharCount(ps, SubSeq(idx, 1, Len(idx) - 1))
         + GetOr(ps[idx[Len(idx)]].post_characteristics.character_count, 0)

\* sum(1 for p in top_posts if p...get(flag))
FlagCount(ps, idx, flag) ==
    Cardinality({j \in 1..Len(idx) : flag \in ps[idx[j]].post_characteristics.flags})

\* max(items, key=mean of the rates)[0]: the first entry no other one beats
BestKey(data) ==
    LET Mean(e) == RatDivInt(RatSum(Rates(e.rates)), Len(e.rates))
        j == CHOOSE j \in 1..Len(data) :
                /\ \A k \in 1..Len(data) : ~RatLess(Mean(data[j]), Mean(data[k]))
                /\ \A k \in 1..(j - 1) : RatLess(Mean(data[k]), Mean(data[j]))
    IN  data[j].key

\* the hour -> rates and day -> rates dicts over the posts named by idx, given
\* the rate of each
RECURSIVE HourRates(_, _, _)
HourRates(ps, idx, k) ==
    IF k = 0 THEN <<>>
    ELSE LET prev == HourRates(ps, idx, k - 1)
             hour == HourOf(ps[idx[k]])
         IN  IF hour = None THEN prev
             ELSE AddRate(prev, hour[1], idx[k], EngagementRate(ps[idx[k]]))

RECURSIVE DayRates(_, _, _)
DayRates(ps, idx, k) ==
    IF k = 0 THEN <<>>
    ELSE LET prev == DayRates(ps, idx, k - 1)
             day == DayOf(ps[idx[k]])
         IN  IF day = None THEN prev
             ELSE AddRate(prev, day[1], idx[k], EngagementRate(ps[idx[k]]))

RecommendFlags == <<"has_list", "has_question", "has_hashtags", "has_emoji", "has_image">>

\* a faulty variant: a flag must be in more than half of the top posts
EffectiveFormatsStrict(ps, top_posts) ==
    LET counts == [j \in 1..Len(RecommendFlags) |->
                      [key |-> RecommendFlags[j],
                       count |-> FlagCount(ps, top_posts, RecommendFlags[j])]]
        sorted == SortedByCount(counts)
    IN  SelectSeq(sorted, LAMBDA e : 2 * e.count > Len(top_posts))

\* lines 280-297: the flags printed, by descending count, each with its count,
\* when count / len(top_posts) * 100 >= 50
EffectiveFormats(ps, top_posts) ==
    LET counts == [j \in 1..Len(RecommendFlags) |->
                      [key |-> RecommendFlags[j],
                       count |-> FlagCount(ps, top_posts, RecommendFlags[j])]]
        sorted == SortedByCount(counts)
    IN  SelectSeq(sorted, LAMBDA e :
            ~RatLess(RatMulInt(RatDivInt(IntRat(e.count), Len(top_posts)), 100),
                     IntRat(MajorityPercent)))

\* generate_recommendations, given at least one top post (line 278 divides by
\* len(top_posts))
RecommendationsResult(ps) ==
    LET top_posts == TopOf(PostsWithRate(ps))
        time_data == HourRates(ps, top_posts, Len(top_posts))
        day_data == DayRates(ps, top_posts, Len(top_posts))
    IN  [top_posts |-> top_posts,
         avg_length |-> SumCharCount(ps, top_posts) \div Len(top_posts),
         formats |-> EffectiveFormats(ps, top_posts),
         best_hour |-> IF time_data # <<>> THEN Some(BestKey(time_data)) ELSE None,
         best_day |-> IF day_data # <<>> THEN Some(BestKey(day_data)) ELSE None]

----------------------------------------------------------------------------
(* generate.py, load_performance_insights *)

MinInsightPosts == 3

InsightFlags == <<"has_list", "has_question", "has_hashtags", "has_image">>
InsightNames == <<"lists", "questions", "hashtags", "images">>

\* lines 165-173: only posts with impressions > 0 get a rate
RECURSIVE InsightRates(_, _)
InsightRates(ps, k) ==
    IF k = 0 THEN <<>>
    ELSE LET prev == InsightRates(ps, k - 1)
             engagement == ps[k].engagement
             impressions == GetOr(engagement.impressions, 0)
         IN  IF impressions > 0
             THEN Append(prev,
                    [i |-> k,
                     sortkey |-> RatMulInt(RatDivInt(
                                    IntRat(GetOr(engagement.reactions, 0)
                                           + GetOr(engagement.comments, 0)
                                           + GetOr(engagement.shares, 0)),
                                    impressions), 100)])
             ELSE prev

\* lines 194-203: the formats found in half or more of the top posts
RECURSIVE CommonFormats(_, _, _)
CommonFormats(ps, top_posts, k) ==
    IF k = 0 THEN <<>>
    ELSE LET prev == CommonFormats(ps, top_posts, k - 1)
             count == FlagCount(ps, top_posts, InsightFlags[k])
         IN  IF 2 * count >= Len(top_posts)
             THEN Append(prev, InsightNames[k])
             ELSE prev

\* load_performance_insights: [none |-> TRUE] is the return value None.
\* The posts are named by their index in the list the function loaded.
InsightsResult(fs) ==
    LET ps == LoadedPosts(fs)
        posts_with_rate == InsightRates(ps, Len(ps))
    IN  IF fs = <<>> \/ Len(ps) < MinInsightPosts \/ posts_with_rate = <<>>
        THEN [none |-> TRUE]
        ELSE LET ranked == SortedDesc(posts_with_rate)
                 top_posts == TopOf(ranked)
                 time_data == HourRates(ps, top_posts, Len(top_posts))
                 day_data == DayRates(ps, top_posts, Len(top_posts))
             IN  [none |-> FALSE,
                  ranked |-> ranked,
                  top_posts |-> top_posts,
                  avg_length |-> SumCharCount(ps, top_posts) \div Len(top_posts),
                  common_formats |-> CommonFormats(ps, top_posts, Len(InsightFlags)),
                  best_time |-> IF time_data # <<>> THEN Some(BestKey(time_data)) ELSE None,
                  best_day |-> IF day_data # <<>> THEN Some(BestKey(day_data)) ELSE None]

----------------------------------------------------------------------------
(* The runs: analyze_performance.py main() from "load", or generate.py's    *)
(* insight loading from "insights"                                          *)

\* load_posts_with_metadata; with no JSON file it prints an error and exits
LoadPosts ==
    /\ apc = "load"
    /\ IF files = <<>>
       THEN /\ apc' = "exited"
            /\ posts' = posts
       ELSE /\ apc' = "timing"
            /\ posts' = LoadedPosts(files)
    /\ warnings' = WarnedFiles(files)
    /\ UNCHANGED <<files, timing, chars, performers, patterns, recs, insights, err,
                 ctxVars, raceVars, extVars>>

\* a faulty variant: the list main() holds is itself sorted by rate
PostsSortedInPlace(ps) ==
    LET ranked == PostsWithRate(ps)
    IN  [j \in 1..Len(ranked) |-> ps[ranked[j].i]]

\* lines 191-192, 234-235 and 270-271: the comprehension builds a new list of
\* (post, rate) pairs and .sort() orders that list; the posts are read with
\* .get only, so the list main() holds is as it was
PostsAfterRanking(ps) == ps

AnalyzeTiming ==
    /\ apc = "timing"
    /\ timing' = TimingResult(posts)
    /\ apc' = "characteristics"
    /\ UNCHANGED <<files, posts, chars, performers, patterns, recs, insights, err, warnings,
                 ctxVars, raceVars, extVars>>

AnalyzePostCharacteristics ==
    /\ apc = "characteristics"
    /\ chars' = CharacteristicsResult(posts)
    /\ apc' = "performers"
    /\ UNCHANGED <<files, posts, timing, performers, patterns, recs, insights, err, warnings,
                 ctxVars, raceVars, extVars>>

AnalyzeTopPerformers ==
    /\ apc = "performers"
    /\ performers' = TopPerformersResult(posts)
    /\ posts' = PostsAfterRanking(posts)
    /\ apc' = "patterns"
    /\ UNCHANGED <<files, timing, chars, patterns, recs, insights, err, warnings,
                 ctxVars, raceVars, extVars>>

AnalyzeContentPatterns ==
    /\ apc = "patterns"
    /\ patterns' = ContentPatternsResult(posts)
    /\ posts' = PostsAfterRanking(posts)
    /\ apc' = "recommend"
    /\ UNCHANGED <<files, timing, chars, performers, recs, insights, err, warnings,
                 ctxVars, raceVars, extVars>>

\* with no post, top_posts is empty and line 278 divides by len(top_posts)
GenerateRecommendations ==
    /\ apc = "recommend"
    /\ IF TopOf(PostsWithRate(posts)) = <<>>
       THEN /\ apc' = "crashed"
            /\ err' = "ZeroDivisionError"
            /\ recs' = recs
       ELSE /\ apc' = "done"
            /\ err' = err
            /\ recs' = RecommendationsResult(posts)
    /\ posts' = PostsAfterRanking(posts)
    /\ UNCHANGED <<files, timing, chars, performers, patterns, insights,
                 warnings, ctxVars, raceVars, extVars>>

LoadPerformanceInsights ==
    /\ apc = "insights"
    /\ insights' = InsightsResult(files)
    /\ warnings' = <<>>
    /\ apc' = "generating"
    /\ UNCHANGED <<files, posts, timing, chars, performers, patterns, recs, err,
                 ctxVars, raceVars, extVars>>

CtxIdle ==
    /\ ctxFile = <<TopicPair, FreqPair>>
    /\ nUpdates = 0
    /\ lastEntry = NoValue
    /\ prevAngles = <<>>
    /\ pc = [p \in Procs |-> "idle"]
    /\ ctxData = [p \in Procs |-> <<>>]
    /\ entry = [p \in Procs |-> NoValue]
    /\ lastWriter = 0

SeqsUpTo(S, n) == UNION {[1..k -> S] : k \in 0..n}

AggStart(dirs) ==
    /\ CtxIdle
    /\ files \in dirs
    /\ apc \in {"load", "insights"}
    /\ ResultsEmpty
    /\ ExtIdle

Init == AggStart(SeqsUpTo(FilePool, MaxFiles))

Next ==
    \/ LoadPosts
    \/ AnalyzeTiming
    \/ AnalyzePostCharacteristics
    \/ AnalyzeTopPerformers
    \/ AnalyzeContentPatterns
    \/ GenerateRecommendations
    \/ LoadPerformanceInsights

Spec == Init /\ [][Next]_vars

\* long directories of few kinds of post, for the quartile: rates 10, 5 and
\* a post with no impressions
RankPool == {DictFile(PostA), DictFile(PostB), DictFile(PostD)}

InitRank == AggStart(SeqsUpTo(RankPool, MaxRankedFiles))

SpecRank == InitRank /\ [][Next]_vars

\* directories of MaxRankedFiles records of two kinds, so that the top
\* quartile holds two records that share some flags and differ in others
HalfPool == {DictFile(PostA), DictFile(PostB)}

InitHalf == AggStart([1..MaxRankedFiles -> HalfPool])

SpecHalf == InitHalf /\ [][Next]_vars

----------------------------------------------------------------------------
(* generate.py: the prompt.  A prompt is the sequence of its sections, each *)
(* a header line and the lines under it, in the order of the text; the text *)
(* between the sections is fixed.                                           *)

Section(header, body) == [header |-> header, body |-> body]

\* the lines a text puts under a header: an empty text puts none
TextLines(text) == IF text = "" THEN <<>> ELSE <<text>>

\* "\n".join([f"- {x}" for x in list]), and the loop of lines 265-267
Bullets(list) == [i \in 1..Len(list) |-> <<"-", list[i]>>]

\* dict.get(key, default) on a context
GetKeyOr(data, key, default) == IF HasKey(data, key) THEN GetKey(data, key) ELSE default

\* config['defaults']
Audience == "target_audience"
Tone == "tone_guidance"
MaxLengthText == "max_length"

StyleGuideText == "style guide"

\* get_variant_styles(): the descriptions, named by the style
VariantStyles ==
    <<"Story-Driven", "Data & Insights", "Question-Led", "Listicle/Framework",
      "Contrarian Take">>

\* lines 289-295 and 299-307: fixed text
AlgorithmTips ==
    <<"hook in the first 2 lines", "engagement in the first hour",
      "end with a question", "short paragraphs", "avoid external links">>
OutputFormat == <<"[POST CONTENT]", "---IMAGE SUGGESTION---", "[image description]">>

\* 'if variant_style:'
StyleGiven(variant_style) == variant_style # <<>> /\ variant_style[1] # ""

\* lines 261-267 and 347-353
InspirationSection(insp) ==
    IF insp # <<>>
    THEN <<Section("INSPIRATION NOTES",
                   Bullets([i \in 1..Len(insp) |-> insp[i].content]))>>
    ELSE <<>>

\* lines 270-274 and 356-360
VariantSection(variant_style) ==
    IF StyleGiven(variant_style)
    THEN <<Section("VARIANT STYLE", TextLines(variant_style[1]))>>
    ELSE <<>>

\* lines 277-295: 'if insights:' holds for every dict load_performance_insights
\* returns, and fails for None
InsightSections(ins) ==
    IF ~ins.none
    THEN <<Section("PERFORMANCE OPTIMIZATION",
                   <<<<"Target Length", ins.avg_length>>>>
                   \o (IF ins.common_formats # <<>>
                       THEN <<<<"Consider using", ins.common_formats>>>>
                       ELSE <<>>)),
           Section("LINKEDIN ALGORITHM OPTIMIZATION:", AlgorithmTips)>>
    ELSE <<>>

\* build_manual_prompt
BuildManualPrompt(style_guide, topic, goal, ins, insp, variant_style) ==
    <<Section("STYLE GUIDE TO FOLLOW:", TextLines(style_guide)),
      Section("POST REQUIREMENTS:",
              <<<<"Topic", topic>>, <<"Goal", goal>>, <<"Target Audience", Audience>>,
                <<"Tone", Tone>>, <<"Maximum Length", MaxLengthText>>>>)>>
    \o InspirationSection(insp)
    \o VariantSection(variant_style)
    \o InsightSections(ins)
    \o <<Section("Format your output as:", OutputFormat)>>

\* build_context_prompt: the three lists of the context are always given a
\* header; only recent_text has a replacement for an empty list
BuildContextPrompt(style_guide, context_data, insp, variant_style) ==
    LET topic == GetKeyOr(context_data, "topic", "Unknown")
        themes == GetKeyOr(context_data, "themes", <<>>)
        key_messages == GetKeyOr(context_data, "key_messages", <<>>)
        target_audience == GetKeyOr(context_data, "target_audience", Audience)
        recent_angles == GetKeyOr(context_data, AnglesKey, <<>>)
        themes_text == Bullets(themes)
        messages_text == Bullets(key_messages)
        recent_text == IF recent_angles # <<>> THEN Bullets(recent_angles)
                       ELSE <<"None yet">>
    IN  <<Section("STYLE GUIDE TO FOLLOW:", TextLines(style_guide)),
          Section("BROADER TOPIC CONTEXT:",
                  <<<<"Topic", topic>>, <<"Target Audience", target_audience>>>>),
          Section("Key Themes to Draw From:", themes_text),
          Section("Key Messages to Convey:", messages_text),
          Section("Recently Covered Angles (DO NOT REPEAT):", recent_text)>>
        \o InspirationSection(insp)
        \o VariantSection(variant_style)
        \o <<Section("POST REQUIREMENTS:",
                     <<"fresh angle", <<"Maximum Length", MaxLengthText>>,
                       "match the style guide", "authentic and natural">>),
             Section("Format your output as:", OutputFormat)>>

----------------------------------------------------------------------------
(* The runs of generate.py (from "args") and of analyze_style.py (from      *)
(* "style_config").  Both call the external generator with subprocess.run   *)
(* and exit on its failure.                                                 *)

\* line 476: --variants must be between 1 and 5
MaxAllowedVariants == 5

\* the command lines tried: --variants 0, 1..MaxVariants and 6
VariantChoices == (0..MaxVariants) \cup {MaxAllowedVariants + 1}

\* analyze_style.py takes no argument
StyleArgs ==
    [script |-> "analyze_style.py", mode |-> "manual", topic_goal |-> TRUE,
     variants |-> 1, update_context |-> FALSE, angle_summary |-> <<>>]

ArgChoices ==
    [script : {"generate.py"},
     mode : {"manual", "context"},
     topic_goal : BOOLEAN,
     variants : VariantChoices,
     update_context : BOOLEAN,
     angle_summary : {<<>>} \cup {<<s>> : s \in Summaries}]

EnvChoices == [config : BOOLEAN, style_guide : BOOLEAN, context : BOOLEAN]

\* what subprocess.run can do: return, raise CalledProcessError (non-zero
\* exit status, check=True), raise FileNotFoundError (no such command)
ToolOutcomes == {"ok", "nonzero", "notfound"}

InspirationChoices == {<<>>, <<[file |-> "note.txt", content |-> "an idea"]>>}

TextChoices == {<<>>, <<"a post in a text file">>}

\* contexts: the template of manage_context.py filled in, one with the lists
\* emptied, and one with only a topic
ThemesPair == [k |-> "themes", v |-> <<"theme 1", "theme 2">>]
MessagesPair == [k |-> "key_messages", v |-> <<"message 1">>]

GenContexts ==
    {<<TopicPair, ThemesPair, MessagesPair, FreqPair,
       [k |-> AnglesKey, v |-> OldHistory(1)]>>,
     <<TopicPair, [k |-> "themes", v |-> <<>>], [k |-> "key_messages", v |-> <<>>],
       FreqPair, [k |-> AnglesKey, v |-> <<>>]>>,
     <<TopicPair, FreqPair>>}

\* examples directories: empty; three records with an image post on top;
\* three with a video post on top; one record between two unreadable files
GenDirs ==
    {<<>>,
     <<DictFile(PostA), DictFile(PostB), DictFile(PostC)>>,
     <<DictFile(PostA), DictFile(PostB), DictFile(PostG)>>,
     <<Malformed, DictFile(NoEngagement), ListFile>>}

\* a faulty variant: the list of styles is not cut to the number asked for
NumStylesAll(variants) == IF variants > 1 THEN Len(VariantStyles) ELSE 1

\* 'variant_styles = get_variant_styles()[:args.variants] if args.variants > 1
\* else [None]', and the description handed to the prompt for variant n
NumStyles(variants) == IF variants > 1 THEN Min(variants, Len(VariantStyles)) ELSE 1
VariantStyle(variants, n) == IF variants > 1 THEN Some(VariantStyles[n]) ELSE None

\* f"draft_{mode}_{identifier}_{timestamp}.md", the identifier with
\* _variant{n} when there are several; the timestamp is left out
DraftName(a, n) ==
    [mode |-> a.mode, variant |-> IF a.variants > 1 THEN Some(n) ELSE None]

\* a faulty variant: a failed invocation is tried again
AfterCallRetry(outcome, here, next) == IF outcome = "ok" THEN next ELSE here

\* lines 396-405 (and analyze_style.py 105-114): the result is returned, or
\* sys.exit(1)
AfterCall(outcome, here, next) == IF outcome = "ok" THEN next ELSE "exited"

\* what the except clauses print
CallMessage(outcome) ==
    IF outcome = "nonzero" THEN "Error calling Claude CLI"
    ELSE IF outcome = "notfound" THEN "Error: Claude CLI command not found"
    ELSE ""

\* read_example_posts, lines 52-63: the stripped content of every JSON file
\* that has one
RECURSIVE StyleContents(_)
StyleContents(fs) ==
    IF fs = <<>> THEN <<>>
    ELSE LET rest == StyleContents(SubSeq(fs, 1, Len(fs) - 1))
             f == fs[Len(fs)]
         IN  IF f.kind = "dict" /\ Truthy(f.data.content)
             THEN Append(rest, f.data.content)
             ELSE rest

\* lines 470-477: parser.error prints the usage and exits with status 2
ParseArgs ==
    /\ gpc = "args"
    /\ IF \/ (args.mode = "manual" /\ ~args.topic_goal)
          \/ args.variants < 1
          \/ args.variants > MaxAllowedVariants
       THEN /\ gpc' = "exited"
            /\ exit' = Some(2)
            /\ message' = "usage error"
       ELSE /\ gpc' = "config"
            /\ UNCHANGED <<exit, message>>
    /\ UNCHANGED <<args, env, inspirations, variant_num, prompt, calls, all_drafts,
                 example_posts, ctxVars, raceVars, aggVars, convVars, mgrVars>>

\* load_config opens config.yaml with no check: a missing file is an
\* uncaught FileNotFoundError, a traceback and exit status 1
LoadConfig ==
    /\ gpc \in {"config", "style_config"}
    /\ IF ~env.config
       THEN /\ gpc' = "exited"
            /\ exit' = Some(1)
            /\ message' = "Traceback: FileNotFoundError"
       ELSE /\ gpc' = (IF gpc = "config" THEN "style" ELSE "style_read")
            /\ UNCHANGED <<exit, message>>
    /\ UNCHANGED <<args, env, inspirations, variant_num, prompt, calls, all_drafts,
                 example_posts, ctxVars, raceVars, aggVars, convVars, mgrVars>>

\* load_style_guide; main() goes on to load_performance_insights
LoadStyleGuide ==
    /\ gpc = "style"
    /\ IF ~env.style_guide
       THEN /\ gpc' = "exited"
            /\ exit' = Some(1)
            /\ message' = "Error: Style guide not found"
            /\ apc' = apc
       ELSE /\ gpc' = "insights"
            /\ apc' = "insights"
            /\ UNCHANGED <<exit, message>>
    /\ UNCHANGED <<args, env, inspirations, variant_num, prompt, calls, all_drafts,
                 example_posts, ctxVars, raceVars, files, posts, timing, chars,
                 performers, patterns, recs, insights, err, warnings, convVars,
                 mgrVars>>

\* load_inspiration_notes: a random sample of the notes, possibly none
LoadInspirationNotes ==
    /\ gpc = "insights"
    /\ apc = "generating"
    /\ inspirations' \in InspirationChoices
    /\ variant_num' = 1
    /\ gpc' = "variant"
    /\ UNCHANGED <<args, env, prompt, calls, all_drafts, exit, message,
                 example_posts, ctxVars, raceVars, aggVars, convVars, mgrVars>>

\* lines 519-541: the prompt of this variant; in context mode load_context
\* comes first and exits when the context file is missing
BuildPrompt ==
    /\ gpc = "variant"
    /\ LET variant_style == VariantStyle(args.variants, variant_num)
       IN  IF args.mode = "manual"
           THEN /\ prompt' = BuildManualPrompt(StyleGuideText, "topic", "goal",
                                               insights, inspirations, variant_style)
                /\ gpc' = "call"
                /\ UNCHANGED <<exit, message>>
           ELSE IF ~env.context
           THEN /\ prompt' = prompt
                /\ gpc' = "exited"
                /\ exit' = Some(1)
                /\ message' = "Error: Context not found"
           ELSE /\ prompt' = BuildContextPrompt(StyleGuideText, ctxFile,
                                                inspirations, variant_style)
                /\ gpc' = "call"
                /\ UNCHANGED <<exit, message>>
    /\ UNCHANGED <<args, env, inspirations, variant_num, calls, all_drafts,
                 example_posts, ctxVars, raceVars, aggVars, convVars, mgrVars>>

\* generate_with_claude: one subprocess.run
GenerateWithClaude ==
    /\ gpc = "call"
    /\ \E outcome \in ToolOutcomes :
          /\ calls' = Append(calls, [variant |-> variant_num, prompt |-> prompt,
                                    outcome |-> outcome])
          /\ gpc' = AfterCall(outcome, "call", "save")
          /\ exit' = (IF outcome = "ok" THEN exit ELSE Some(1))
          /\ message' = CallMessage(outcome)
    /\ UNCHANGED <<args, env, inspirations, variant_num, prompt, all_drafts,
                 example_posts, ctxVars, raceVars, aggVars, convVars, mgrVars>>

\* save_draft and the end of the loop body
SaveDraft ==
    /\ gpc = "save"
    /\ all_drafts' = Append(all_drafts,
                            [variant |-> variant_num, name |-> DraftName(args, variant_num)])
    /\ IF variant_num < NumStyles(args.variants)
       THEN /\ variant_num' = variant_num + 1
            /\ gpc' = "variant"
       ELSE /\ variant_num' = variant_num
            /\ gpc' = "update"
    /\ UNCHANGED <<args, env, inspirations, prompt, calls, exit, message,
                 example_posts, ctxVars, raceVars, aggVars, convVars, mgrVars>>

\* a faulty variant: the mode is not looked at
UpdateRequestedAnyMode(a) == a.update_context /\ a.angle_summary # None

\* lines 561-562: 'if args.context and args.update_context: if args.angle_summary:'
UpdateRequested(a) ==
    a.mode = "context" /\ a.update_context /\ a.angle_summary # None

\* lines 560-566 and the rest of main(), which only prints
FinishRun ==
    /\ gpc = "update"
    /\ IF UpdateRequested(args)
       THEN LET e == FormatEntry(Today, args.angle_summary[1])
            IN  /\ ctxFile' = UpdatedContext(ctxFile, e)
                /\ nUpdates' = nUpdates + 1
                /\ lastEntry' = e
                /\ prevAngles' = Angles(ctxFile)
       ELSE UNCHANGED ctxVars
    /\ gpc' = "done"
    /\ exit' = Some(0)
    /\ UNCHANGED <<args, env, inspirations, variant_num, prompt, calls, all_drafts,
                 message, example_posts, raceVars, aggVars, convVars, mgrVars>>

\* analyze_style.py, read_example_posts: text files are read as they are,
\* JSON files inside try/except with a warning for each that raises
ReadExamplePosts ==
    /\ gpc = "style_read"
    /\ \E texts \in TextChoices :
          IF texts = <<>> /\ files = <<>>
          THEN /\ gpc' = "exited"
               /\ exit' = Some(1)
               /\ message' = "Error: No example posts found"
               /\ UNCHANGED <<example_posts, warnings>>
          ELSE /\ example_posts' = texts \o StyleContents(files)
               /\ warnings' = WarnedFiles(files)
               /\ gpc' = "style_call"
               /\ UNCHANGED <<exit, message>>
    /\ UNCHANGED <<args, env, inspirations, variant_num, prompt, calls, all_drafts,
                 ctxVars, raceVars, files, apc, posts, timing, chars, performers,
                 patterns, recs, insights, err, convVars, mgrVars>>

\* analyze_with_claude: one subprocess.run
AnalyzeWithClaude ==
    /\ gpc = "style_call"
    /\ \E outcome \in ToolOutcomes :
          /\ calls' = Append(calls, [variant |-> 0, prompt |-> prompt, outcome |-> outcome])
          /\ gpc' = AfterCall(outcome, "style_call", "style_save")
          /\ exit' = (IF outcome = "ok" THEN exit ELSE Some(1))
          /\ message' = CallMessage(outcome)
    /\ UNCHANGED <<args, env, inspirations, variant_num, prompt, all_drafts,
                 example_posts, ctxVars, raceVars, aggVars, convVars, mgrVars>>

\* save_style_guide and the end of main()
SaveStyleGuide ==
    /\ gpc = "style_save"
    /\ env' = [env EXCEPT !.style_guide = TRUE]
    /\ gpc' = "done"
    /\ exit' = Some(0)
    /\ UNCHANGED <<args, inspirations, variant_num, prompt, calls, all_drafts,
                 message, example_posts, ctxVars, raceVars, aggVars, convVars, mgrVars>>

InitGen ==
    /\ ctxFile \in GenContexts
    /\ nUpdates = 0
    /\ lastEntry = NoValue
    /\ prevAngles = <<>>
    /\ pc = [p \in Procs |-> "idle"]
    /\ ctxData = [p \in Procs |-> <<>>]
    /\ entry = [p \in Procs |-> NoValue]
    /\ lastWriter = 0
    /\ files \in GenDirs
    /\ apc = "idle"
    /\ ResultsEmpty
    /\ args \in ArgChoices \cup {StyleArgs}
    /\ gpc = (IF args.script = "generate.py" THEN "args" ELSE "style_config")
    /\ env \in EnvChoices
    /\ inspirations = <<>>
    /\ variant_num = 0
    /\ prompt = <<>>
    /\ calls = <<>>
    /\ all_drafts = <<>>
    /\ exit = <<>>
    /\ message = ""
    /\ example_posts = <<>>
    /\ ConvIdle
    /\ MgrIdle

NextGen ==
    \/ ParseArgs
    \/ LoadConfig
    \/ LoadStyleGuide
    \/ LoadPerformanceInsights
    \/ LoadInspirationNotes
    \/ BuildPrompt
    \/ GenerateWithClaude
    \/ SaveDraft
    \/ FinishRun
    \/ ReadExamplePosts
    \/ AnalyzeWithClaude
    \/ SaveStyleGuide

SpecGen == InitGen /\ [][NextGen]_vars

----------------------------------------------------------------------------
(* convert_excel_to_json.py: cells.  A cell of the sheet is what pandas     *)
(* hands over: NaN for an empty cell, an int, a float (an exact rational    *)
(* num/den), a bool, a string (the sequence of its characters) or another   *)
(* object such as a datetime, of which only str() is used.                  *)

NaN == [kind |-> "nan"]
IntCell(n) == [kind |-> "int", n |-> n]
FloatCell(num, den) == [kind |-> "float", num |-> num, den |-> den]
BoolCell(b) == [kind |-> "bool", b |-> b]
Str(cs) == [kind |-> "str", text |-> cs]
ObjectCell(cs) == [kind |-> "object", text |-> cs]

\* pd.isna(value), pd.notna(value)
IsNa(value) == value.kind = "nan"
NotNa(value) == ~IsNa(value)

DigitValue ==
    [c \in {"0", "1", "2", "3", "4", "5", "6", "7", "8", "9"} |->
        CASE c = "0" -> 0 [] c = "1" -> 1 [] c = "2" -> 2 [] c = "3" -> 3
          [] c = "4" -> 4 [] c = "5" -> 5 [] c = "6" -> 6 [] c = "7" -> 7
          [] c = "8" -> 8 [] c = "9" -> 9]

IsDigit(c) == c \in DOMAIN DigitValue

\* the number a sequence of decimal digits denotes
RECURSIVE DigitsValue(_)
DigitsValue(digits) ==
    IF digits = <<>> THEN 0
    ELSE 10 * DigitsValue(SubSeq(digits, 1, Len(digits) - 1))
         + DigitValue[digits[Len(digits)]]

IsSpace(c) == c \in {" ", "\n"}

\* str.strip()
RECURSIVE Strip(_)
Strip(cs) ==
    IF cs = <<>> THEN <<>>
    ELSE IF IsSpace(cs[1]) THEN Strip(Tail(cs))
    ELSE IF IsSpace(cs[Len(cs)]) THEN Strip(SubSeq(cs, 1, Len(cs) - 1))
    ELSE cs

\* str.replace(',', '')
RemoveCommas(cs) == SelectSeq(cs, LAMBDA c : c # ",")

\* int(s) of a string: surrounding whitespace, an optional sign, then decimal
\* digits with single underscores allowed between them; None stands for the
\* ValueError
IntLiteral(cs) ==
    LET s == Strip(cs)
        signed == s # <<>> /\ s[1] \in {"-", "+"}
        body == IF signed THEN Tail(s) ELSE s
        ok == /\ body # <<>>
              /\ \A i \in 1..Len(body) : IsDigit(body[i]) \/ body[i] = "_"
              /\ IsDigit(body[1])
              /\ IsDigit(body[Len(body)])
              /\ \A i \in 1..(Len(body) - 1) : ~(body[i] = "_" /\ body[i + 1] = "_")
        n == DigitsValue(SelectSeq(body, IsDigit))
    IN  IF ~ok THEN None
        ELSE IF s[1] = "-" THEN Some(0 - n)
        ELSE Some(n)

\* int(value) of an int, a float (truncated towards zero) or a bool
Trunc(value) ==
    IF value.kind = "int" THEN value.n
    ELSE IF value.kind = "bool" THEN (IF value.b THEN 1 ELSE 0)
    ELSE IF value.num >= 0 THEN value.num \div value.den
    ELSE 0 - ((0 - value.num) \div value.den)

DigitChars == <<"0", "1", "2", "3", "4", "5", "6", "7", "8", "9">>

\* the decimal digits of a natural number
RECURSIVE DigitsOf(_)
DigitsOf(n) ==
    IF n < 10 THEN <<DigitChars[n + 1]>>
    ELSE Append(DigitsOf(n \div 10), DigitChars[(n % 10) + 1])

\* str(value): a string is itself, an object is its text; a float is written
\* with one decimal
StrOf(value) ==
    IF value.kind \in {"str", "object"} THEN value.text
    ELSE IF value.kind = "bool" THEN (IF value.b THEN <<"True">> ELSE <<"False">>)
    ELSE IF value.kind = "int"
    THEN (IF value.n < 0 THEN <<"-">> \o DigitsOf(0 - value.n) ELSE DigitsOf(value.n))
    ELSE LET a == IF value.num < 0 THEN 0 - value.num ELSE value.num
         IN  (IF value.num < 0 THEN <<"-">> ELSE <<>>)
             \o DigitsOf(a \div value.den) \o <<".">>
             \o DigitsOf(((a % value.den) * 10) \div value.den)

\* a faulty variant: the separators are not removed
ParseNumberKeepCommas(value) ==
    IF IsNa(value) THEN 0
    ELSE IF value.kind \in {"int", "float", "bool"} THEN Trunc(value)
    ELSE LET r == IntLiteral(StrOf(value))
         IN  IF r = None THEN 0 ELSE r[1]

\* parse_number
ParseNumber(value) ==
    IF IsNa(value) THEN 0
    ELSE IF value.kind \in {"int", "float", "bool"} THEN Trunc(value)
    ELSE LET r == IntLiteral(RemoveCommas(StrOf(value)))
         IN  IF r = None THEN 0 ELSE r[1]

\* the cells tried: every string of up to MaxCellLen of these characters, the
\* docstring's example, and some cells that are not strings
CellChars == {"0", "5", "7", ",", ".", "-", " ", "_", "x"}

ExampleCell == Str(<<"5", ",", "5", "3", "7">>)

CellPool ==
    {Str(cs) : cs \in SeqsUpTo(CellChars, MaxCellLen)}
    \cup {ExampleCell, NaN, IntCell(0), IntCell(42), FloatCell(5537, 1),
          FloatCell(127, 10), FloatCell(0 - 1, 2), BoolCell(TRUE),
          ObjectCell(<<"2", "0", "2", "5", "-", "0", "9", "-", "3", "0">>)}

\* one call of parse_number
ParseNumberCall ==
    /\ number = None
    /\ number' = Some(ParseNumber(cell))
    /\ UNCHANGED <<cell, excel_files, cpc, file_num, exdir, images_dir, all_posts,
                   conv_errors>>
    /\ UNCHANGED <<ctxVars, raceVars, aggVars, genVars, mgrVars>>

InitCell ==
    /\ CtxIdle
    /\ AggIdle
    /\ GenIdle
    /\ MgrIdle
    /\ cell \in CellPool
    /\ number = None
    /\ excel_files = <<>>
    /\ cpc = "idle"
    /\ file_num = 0
    /\ exdir = <<>>
    /\ images_dir = <<>>
    /\ all_posts = <<>>
    /\ conv_errors = <<>>

NextCell == ParseNumberCall

SpecCell == InitCell /\ [][NextCell]_vars

----------------------------------------------------------------------------
(* convert_excel_to_json.py: the sheet.  A text is the sequence of its      *)
(* symbols: single characters, and whole words, dates and times written as  *)
(* one symbol where their letters do not matter.  A row is its two cells,   *)
(* c0 and c1; a sheet of one column has NaN for every c1.                   *)

Row(c0, c1) == [c0 |-> c0, c1 |-> c1]

Word(w) == Str(<<w>>)

\* str.lower() on the symbols used
LowerSymbol(c) ==
    CASE c = "Image" -> "image"
      [] c = "IMAGE" -> "image"
      [] c = "Content" -> "content"
      [] c = "Impressions" -> "impressions"
      [] OTHER -> c

Lower(cs) == [i \in 1..Len(cs) |-> LowerSymbol(cs[i])]

\* str(x).strip() of a cell that is not NaN
TextOf(value) == Strip(StrOf(value))

\* the label of the outer loop, line 170
LabelOf(row) == IF NotNa(row.c0) THEN TextOf(row.c0) ELSE <<>>

\* the value of the outer loop, line 171
ValueOf(row) == IF NotNa(row.c1) THEN row.c1 ELSE NaN

\* 'if value': None, an empty string and a zero are false
ValueGiven(value) ==
    /\ NotNa(value)
    /\ value.kind \in {"str", "object"} => value.text # <<>>
    /\ value.kind = "int" => value.n # 0
    /\ value.kind = "float" => value.num # 0
    /\ value.kind = "bool" => value.b

\* line 65: the row that ends the content block
IsImageRow(row) == NotNa(row.c0) /\ Lower(TextOf(row.c0)) = <<"image">>

\* lines 68-73: what a row of the block adds to content_lines
RowLines(row) ==
    IF NotNa(row.c1) THEN <<TextOf(row.c1)>>
    ELSE IF NotNa(row.c0) /\ TextOf(row.c0) \notin {<<"nan">>, <<>>}
    THEN <<TextOf(row.c0)>>
    ELSE <<>>

\* a faulty variant: the Image row is skipped and the rows after it are read
RECURSIVE ContentLinesPastImage(_, _)
ContentLinesPastImage(df, i) ==
    IF i > Len(df) THEN <<>>
    ELSE IF IsImageRow(df[i]) THEN ContentLinesPastImage(df, i + 1)
    ELSE RowLines(df[i]) \o ContentLinesPastImage(df, i + 1)

\* the loop of extract_content from row i on
RECURSIVE ContentLines(_, _)
ContentLines(df, i) ==
    IF i > Len(df) THEN <<>>
    ELSE IF IsImageRow(df[i]) THEN <<>>
    ELSE RowLines(df[i]) \o ContentLines(df, i + 1)

\* '\n\n'.join(content_lines)
RECURSIVE JoinLines(_)
JoinLines(lines) ==
    IF lines = <<>> THEN <<>>
    ELSE IF Len(lines) = 1 THEN lines[1]
    ELSE lines[1] \o <<"\n", "\n">> \o JoinLines(Tail(lines))

\* extract_content(df, start_idx)
ExtractContent(df, start_idx) == JoinLines(ContentLines(df, start_idx + 1))

\* parse_date: "%b %d, %Y" or "%Y-%m-%d" gives the ISO date, one symbol here;
\* anything else gives None
ParseDate(value) ==
    IF IsNa(value) THEN None
    ELSE LET t == TextOf(value)
         IN  IF t = <<"Sep 30, 2025">> THEN Some(<<"2025-09-30">>)
             ELSE IF t = <<"2025-10-01">> THEN Some(<<"2025-10-01">>)
             ELSE None

\* parse_time: "%I:%M %p" gives "%H:%M"
ParseTime(value) ==
    IF IsNa(value) THEN None
    ELSE LET t == TextOf(value)
         IN  IF t = <<"6:54 AM">> THEN Some(<<"06:54">>)
             ELSE IF t = <<"6:54 PM">> THEN Some(<<"18:54">>)
             ELSE None

\* line 175: what follows the last ':' of str(value), or all of it
RECURSIVE AfterLastColon(_)
AfterLastColon(cs) ==
    IF cs = <<>> THEN <<>>
    ELSE IF cs[Len(cs)] = ":" THEN <<>>
    ELSE Append(AfterLastColon(SubSeq(cs, 1, Len(cs) - 1)), cs[Len(cs)])

PostIdOf(value) == AfterLastColon(StrOf(value))

\* round(x, 2) of a rate that is not negative, ties to the even hundredth
Round2(x) ==
    LET n == x[1] * 100
        q == n \div x[2]
        r == n % x[2]
        k == IF 2 * r < x[2] THEN q
             ELSE IF 2 * r > x[2] THEN q + 1
             ELSE IF q % 2 = 0 THEN q ELSE q + 1
    IN  Norm(k, 100)

\* the characters a symbol stands for
SymbolLen(c) ==
    CASE c \in {"hello", "https"} -> 5
      [] c \in {"why", "tag", "pic"} -> 3
      [] c \in {"item", "http"} -> 4
      [] c \in {"Image", "IMAGE"} -> 5
      [] c = "Content" -> 7
      [] c = "Impressions" -> 11
      [] OTHER -> 1

Punctuation == {",", ".", "-", "!", "?"}
Specials == {"#", ":", "/", "*"}

\* \w of the regular expressions
IsWordSymbol(c) == ~IsSpace(c) /\ c \notin Punctuation /\ c \notin Specials

\* len(content.split())
WordCount(cs) ==
    Cardinality({i \in 1..Len(cs) :
                    ~IsSpace(cs[i]) /\ (i = 1 \/ IsSpace(cs[i - 1]))})

\* len(content)
RECURSIVE CharacterCount(_)
CharacterCount(cs) ==
    IF cs = <<>> THEN 0 ELSE SymbolLen(cs[1]) + CharacterCount(Tail(cs))

\* content.count('\n')
LineBreaks(cs) == Cardinality({i \in 1..Len(cs) : cs[i] = "\n"})

\* re.search(r'[^\w\s,.\-!?]', content)
HasEmoji(cs) == \E i \in 1..Len(cs) : cs[i] \in Specials

\* the \w+ that starts at position i
RECURSIVE WordRun(_, _)
WordRun(cs, i) ==
    IF i > Len(cs) \/ ~IsWordSymbol(cs[i]) THEN <<>>
    ELSE <<cs[i]>> \o WordRun(cs, i + 1)

\* re.findall(r'#\w+', content)
RECURSIVE Hashtags(_, _)
Hashtags(cs, i) ==
    IF i > Len(cs) THEN <<>>
    ELSE IF cs[i] = "#" /\ WordRun(cs, i + 1) # <<>>
    THEN <<<<"#">> \o WordRun(cs, i + 1)>> \o Hashtags(cs, i + 1)
    ELSE Hashtags(cs, i + 1)

\* re.search(r'(\n\d+\.|\n-|\n•)', content); "*" stands for the bullet
RECURSIVE DigitsThenPoint(_, _)
DigitsThenPoint(cs, i) ==
    /\ i < Len(cs)
    /\ IsDigit(cs[i])
    /\ (cs[i + 1] = "." \/ DigitsThenPoint(cs, i + 1))

HasList(cs) ==
    \E i \in 1..(Len(cs) - 1) :
        /\ cs[i] = "\n"
        /\ (cs[i + 1] \in {"-", "*"} \/ DigitsThenPoint(cs, i + 1))

\* re.search(r'https?://', content)
HasLink(cs) ==
    \E i \in 1..(Len(cs) - 3) :
        /\ cs[i] \in {"http", "https"}
        /\ cs[i + 1] = ":" /\ cs[i + 2] = "/" /\ cs[i + 3] = "/"

\* lines 129-166
NewPostData ==
    [post_id |-> <<>>,
     content |-> <<>>,
     metadata |-> [date |-> None, time |-> None, timezone |-> "EET"],
     engagement |-> [impressions |-> 0, reactions |-> 0, comments |-> 0, shares |-> 0,
                     clicks |-> 0, engagement_rate |-> Zero],
     post_characteristics |->
        [type |-> "text_only", has_image |-> FALSE, has_video |-> FALSE,
         has_link |-> FALSE, has_hashtags |-> FALSE, hashtags |-> <<>>,
         has_emoji |-> FALSE, has_list |-> FALSE, has_question |-> FALSE,
         word_count |-> 0, character_count |-> 0, line_breaks |-> 0,
         image_files |-> <<>>],
     context |-> [topic |-> "", goal |-> "", tone |-> "professional"],
     notes |-> "Imported from LinkedIn Analytics Excel export"]

\* lines 170-203: one row of the sheet
ApplyRow(df, i, data) ==
    LET label == LabelOf(df[i])
        value == ValueOf(df[i])
    IN  IF label = <<"Post URL">> /\ ValueGiven(value)
        THEN [data EXCEPT !.post_id = PostIdOf(value)]
        ELSE IF label = <<"Post Date">>
        THEN [data EXCEPT !.metadata.date = ParseDate(value)]
        ELSE IF label = <<"Post Publish Time">>
        THEN [data EXCEPT !.metadata.time = ParseTime(value)]
        ELSE IF label = <<"Impressions">>
        THEN [data EXCEPT !.engagement.impressions = ParseNumber(value)]
        ELSE IF label = <<"Reactions">>
        THEN [data EXCEPT !.engagement.reactions = ParseNumber(value)]
        ELSE IF label = <<"Comments">>
        THEN [data EXCEPT !.engagement.comments = ParseNumber(value)]
        ELSE IF label = <<"Content">>
        THEN [data EXCEPT !.content = ExtractContent(df, i)]
        ELSE IF Lower(label) = <<"image">>
        THEN [data EXCEPT !.post_characteristics.has_image = TRUE]
        ELSE data

\* the loop of lines 169-203 over the first n rows
RECURSIVE ParsedRows(_, _)
ParsedRows(df, n) ==
    IF n = 0 THEN NewPostData ELSE ApplyRow(df, n, ParsedRows(df, n - 1))

\* lines 205-214
WithEngagementRate(data) ==
    LET e == data.engagement
    IN  IF e.impressions > 0
        THEN [data EXCEPT !.engagement.engagement_rate =
                 Round2(RatMulInt(RatDivInt(IntRat(e.reactions + e.comments + e.shares),
                                            e.impressions), 100))]
        ELSE data

\* lines 216-238
WithCharacteristics(data) ==
    LET content == data.content
        hashtags == Hashtags(content, 1)
    IN  IF content = <<>> THEN data
        ELSE [data EXCEPT
                !.post_characteristics.word_count = WordCount(content),
                !.post_characteristics.character_count = CharacterCount(content),
                !.post_characteristics.line_breaks = LineBreaks(content),
                !.post_characteristics.has_emoji = HasEmoji(content),
                !.post_characteristics.has_question = \E i \in 1..Len(content) : content[i] = "?",
                !.post_characteristics.has_hashtags = hashtags # <<>>,
                !.post_characteristics.hashtags = hashtags,
                !.post_characteristics.has_list = HasList(content),
                !.post_characteristics.has_link = HasLink(content)]

\* The archive of a workbook: not a ZIP file at all (an .xls), or its
\* entries in namelist() order.  An entry says whether 'xl/media/' is in its
\* name, whether the name ends with '/', and the extension after the last '.'
ZipEntry(media, folder, ext) == [media |-> media, folder |-> folder, ext |-> ext]

NotZip == [kind |-> "notzip", entries |-> <<>>]
Zip(entries) == [kind |-> "zip", entries |-> entries]

\* line 88
MediaFiles(entries) == SelectSeq(entries, LAMBDA e : e.media /\ ~e.folder)

\* line 95
FileExt(e) == IF e.ext # None THEN e.ext[1] ELSE "png"

\* f"post_{post_id}_image_{image_counter}.{file_ext}"
ImageName(post_id, image_counter, file_ext) ==
    <<"post_">> \o post_id \o <<"_image_">> \o DigitsOf(image_counter)
    \o <<".", file_ext>>

\* a faulty variant: the counter starts at 0
ImageNamesFromZero(archive, post_id) ==
    LET media_files == MediaFiles(archive.entries)
    IN  [k \in 1..Len(media_files) |-> ImageName(post_id, k - 1, FileExt(media_files[k]))]

\* extract_images_from_excel: the names of the files written, in order; a
\* file that is no ZIP archive raises inside the try and gives []
ImageNames(archive, post_id) ==
    IF archive.kind # "zip" THEN <<>>
    ELSE LET media_files == MediaFiles(archive.entries)
         IN  [k \in 1..Len(media_files) |->
                 ImageName(post_id, k, FileExt(media_files[k]))]

\* lines 244-258
WithImages(data, extracted_images) ==
    LET d1 == IF extracted_images # <<>>
              THEN [data EXCEPT
                      !.post_characteristics.image_files = extracted_images,
                      !.post_characteristics.has_image = TRUE,
                      !.post_characteristics.type =
                          IF data.content # <<>> THEN "image" ELSE @]
              ELSE data
        c == d1.post_characteristics
    IN  IF c.has_video THEN [d1 EXCEPT !.post_characteristics.type = "video"]
        ELSE IF c.has_image THEN [d1 EXCEPT !.post_characteristics.type = "image"]
        ELSE IF c.has_link THEN [d1 EXCEPT !.post_characteristics.type = "link"]
        ELSE d1

\* a workbook: whether pd.read_excel can read it, its rows and its archive
Workbook(readable, rows, archive) ==
    [readable |-> readable, rows |-> rows, archive |-> archive]

\* parse_linkedin_excel of a workbook pd.read_excel can read
ParseLinkedinExcel(book) ==
    LET parsed == WithCharacteristics(WithEngagementRate(
                      ParsedRows(book.rows, Len(book.rows))))
    IN  WithImages(parsed, ImageNames(book.archive, parsed.post_id))

----------------------------------------------------------------------------
(* JSON.  json.dump writes a value as text, json.load reads the text back.  *)
(* The text is kept as the tree of its literals: null, true, false, a       *)
(* number literal (sign, integer digits, fraction digits if any), a string  *)
(* literal (its characters between the quotes, escapes written out), an     *)
(* array and an object with its members in order.                           *)

JNull == [j |-> "null"]
JBool(b) == [j |-> IF b THEN "true" ELSE "false"]
JNumber(neg, digits, frac) == [j |-> "number", neg |-> neg, digits |-> digits, frac |-> frac]
JString(cs) == [j |-> "string", text |-> cs]
JArray(items) == [j |-> "array", items |-> items]
JObject(members) == [j |-> "object", members |-> members]
Member(key, value) == [key |-> key, value |-> value]

\* the escapes of a string literal: newline, quote and backslash
RECURSIVE Escape(_)
Escape(cs) ==
    IF cs = <<>> THEN <<>>
    ELSE (IF cs[1] = "\n" THEN <<"\\", "n">>
          ELSE IF cs[1] \in {"\"", "\\"} THEN <<"\\", cs[1]>>
          ELSE <<cs[1]>>) \o Escape(Tail(cs))

\* reading a string literal back
RECURSIVE Unescape(_)
Unescape(cs) ==
    IF cs = <<>> THEN <<>>
    ELSE IF cs[1] = "\\" /\ Len(cs) > 1
    THEN <<(IF cs[2] = "n" THEN "\n" ELSE cs[2])>> \o Unescape(SubSeq(cs, 3, Len(cs)))
    ELSE <<cs[1]>> \o Unescape(Tail(cs))

DumpStr(cs) == JString(Escape(cs))
DumpWord(w) == DumpStr(<<w>>)
DumpOptStr(opt) == IF opt = None THEN JNull ELSE DumpStr(opt[1])
DumpInt(n) == JNumber(n < 0, DigitsOf(IF n < 0 THEN 0 - n ELSE n), None)

\* a faulty variant: the float is written with one decimal
DumpFloatOneDecimal(x) ==
    LET k == (x[1] * 100) \div x[2]
    IN  JNumber(FALSE, DigitsOf(k \div 100), Some(<<DigitChars[((k % 100) \div 10) + 1]>>))

\* float.__repr__ of a number of hundredths that is not negative: the
\* shortest digits that read back as the same float
DumpFloat(x) ==
    LET k == (x[1] * 100) \div x[2]
        f == k % 100
    IN  JNumber(FALSE, DigitsOf(k \div 100),
                Some(IF f % 10 = 0 THEN <<DigitChars[(f \div 10) + 1]>>
                     ELSE <<DigitChars[(f \div 10) + 1], DigitChars[(f % 10) + 1]>>))

DumpStrList(list) == JArray([i \in 1..Len(list) |-> DumpStr(list[i])])

\* json.dump(post_data): the members in the insertion order of the dict
DumpPost(data) ==
    LET m == data.metadata
        e == data.engagement
        c == data.post_characteristics
        x == data.context
    IN  JObject(<<
          Member("post_id", DumpStr(data.post_id)),
          Member("content", DumpStr(data.content)),
          Member("metadata", JObject(<<
              Member("date", DumpOptStr(m.date)),
              Member("time", DumpOptStr(m.time)),
              Member("timezone", DumpWord(m.timezone))>>)),
          Member("engagement", JObject(<<
              Member("impressions", DumpInt(e.impressions)),
              Member("reactions", DumpInt(e.reactions)),
              Member("comments", DumpInt(e.comments)),
              Member("shares", DumpInt(e.shares)),
              Member("clicks", DumpInt(e.clicks)),
              Member("engagement_rate", DumpFloat(e.engagement_rate))>>)),
          Member("post_characteristics", JObject(<<
              Member("type", DumpWord(c.type)),
              Member("has_image", JBool(c.has_image)),
              Member("has_video", JBool(c.has_video)),
              Member("has_link", JBool(c.has_link)),
              Member("has_hashtags", JBool(c.has_hashtags)),
              Member("hashtags", DumpStrList(c.hashtags)),
              Member("has_emoji", JBool(c.has_emoji)),
              Member("has_list", JBool(c.has_list)),
              Member("has_question", JBool(c.has_question)),
              Member("word_count", DumpInt(c.word_count)),
              Member("character_count", DumpInt(c.character_count)),
              Member("line_breaks", DumpInt(c.line_breaks)),
              Member("image_files", DumpStrList(c.image_files))>>)),
          Member("context", JObject(<<
              Member("topic", DumpWord(x.topic)),
              Member("goal", DumpWord(x.goal)),
              Member("tone", DumpWord(x.tone))>>)),
          Member("notes", DumpWord(data.notes))>>)

\* json.dump(all_posts)
DumpPosts(list) == JArray([i \in 1..Len(list) |-> DumpPost(list[i])])

\* obj[key] of a loaded object: the last member of that name
Get(obj, key) ==
    LET i == CHOOSE i \in 1..Len(obj.members) :
                /\ obj.members[i].key = key
                /\ \A k \in (i + 1)..Len(obj.members) : obj.members[k].key # key
    IN  obj.members[i].value

LoadStr(v) == Unescape(v.text)
LoadWord(v) == LoadStr(v)[1]
LoadOptStr(v) == IF v.j = "null" THEN None ELSE Some(LoadStr(v))
LoadBool(v) == v.j = "true"

\* a number literal without a fraction is an int
LoadInt(v) == IF v.neg THEN 0 - DigitsValue(v.digits) ELSE DigitsValue(v.digits)

RECURSIVE Pow10(_)
Pow10(n) == IF n = 0 THEN 1 ELSE 10 * Pow10(n - 1)

\* a number literal read where a float is used: with a fraction it is the
\* float of those digits, without one the int of the same value
LoadFloat(v) ==
    IF v.frac = None THEN IntRat(LoadInt(v))
    ELSE Norm(DigitsValue(v.digits) * Pow10(Len(v.frac[1])) + DigitsValue(v.frac[1]),
              Pow10(Len(v.frac[1])))

LoadStrList(v) == [i \in 1..Len(v.items) |-> LoadStr(v.items[i])]

\* json.load of a record file, field by field
LoadPost(v) ==
    LET m == Get(v, "metadata")
        e == Get(v, "engagement")
        c == Get(v, "post_characteristics")
        x == Get(v, "context")
    IN  [post_id |-> LoadStr(Get(v, "post_id")),
         content |-> LoadStr(Get(v, "content")),
         metadata |-> [date |-> LoadOptStr(Get(m, "date")),
                       time |-> LoadOptStr(Get(m, "time")),
                       timezone |-> LoadWord(Get(m, "timezone"))],
         engagement |-> [impressions |-> LoadInt(Get(e, "impressions")),
                         reactions |-> LoadInt(Get(e, "reactions")),
                         comments |-> LoadInt(Get(e, "comments")),
                         shares |-> LoadInt(Get(e, "shares")),
                         clicks |-> LoadInt(Get(e, "clicks")),
                         engagement_rate |-> LoadFloat(Get(e, "engagement_rate"))],
         post_characteristics |->
            [type |-> LoadWord(Get(c, "type")),
             has_image |-> LoadBool(Get(c, "has_image")),
             has_video |-> LoadBool(Get(c, "has_video")),
             has_link |-> LoadBool(Get(c, "has_link")),
             has_hashtags |-> LoadBool(Get(c, "has_hashtags")),
             hashtags |-> LoadStrList(Get(c, "hashtags")),
             has_emoji |-> LoadBool(Get(c, "has_emoji")),
             has_list |-> LoadBool(Get(c, "has_list")),
             has_question |-> LoadBool(Get(c, "has_question")),
             word_count |-> LoadInt(Get(c, "word_count")),
             character_count |-> LoadInt(Get(c, "character_count")),
             line_breaks |-> LoadInt(Get(c, "line_breaks")),
             image_files |-> LoadStrList(Get(c, "image_files"))],
         context |-> [topic |-> LoadWord(Get(x, "topic")),
                      goal |-> LoadWord(Get(x, "goal")),
                      tone |-> LoadWord(Get(x, "tone"))],
         notes |-> LoadWord(Get(v, "notes"))]

\* json.load of all_posts.json
LoadAllPosts(v) == [i \in 1..Len(v.items) |-> LoadPost(v.items[i])]

----------------------------------------------------------------------------
(* convert_all_excel_files: the run over the workbooks of the examples      *)
(* directory.                                                               *)

\* date.replace('-', '_')
ReplaceDashes(cs) ==
    [i \in 1..Len(cs) |->
        CASE cs[i] = "2025-09-30" -> "2025_09_30"
          [] cs[i] = "2025-10-01" -> "2025_10_01"
          [] cs[i] = "-" -> "_"
          [] OTHER -> cs[i]]

\* lines 286-292
JsonFilename(data) ==
    IF data.metadata.date # None
    THEN <<"post_">> \o ReplaceDashes(data.metadata.date[1]) \o <<".json">>
    ELSE <<"post_">> \o data.post_id \o <<".json">>

CombinedFilename == <<"all_posts.json">>

\* open(path, 'w') and a write: a file of that name is replaced
WriteFile(dir, name, text) ==
    IF \E i \in 1..Len(dir) : dir[i].name = name
    THEN [i \in 1..Len(dir) |->
             IF dir[i].name = name THEN [name |-> name, text |-> text] ELSE dir[i]]
    ELSE Append(dir, [name |-> name, text |-> text])

\* lines 93-108: the media files of workbook `book` written under the names
\* from the k-th on; what is written is the k-th media file of that workbook
RECURSIVE WriteImages(_, _, _, _)
WriteImages(dir, names, k, book) ==
    IF k > Len(names) THEN dir
    ELSE WriteImages(WriteFile(dir, names[k], [book |-> book, media |-> k]),
                     names, k + 1, book)

\* lines 272-278
FindExcelFiles ==
    /\ cpc = "find"
    /\ IF excel_files = <<>>
       THEN cpc' = "done" /\ UNCHANGED file_num
       ELSE cpc' = "convert" /\ file_num' = 1
    /\ UNCHANGED <<excel_files, exdir, images_dir, all_posts, conv_errors>>
    /\ UNCHANGED <<cell, number, ctxVars, raceVars, aggVars, genVars, mgrVars>>

\* lines 282-308: one workbook
ConvertExcelFile ==
    /\ cpc = "convert"
    /\ LET book == excel_files[file_num]
           post_data == ParseLinkedinExcel(book)
       IN  IF book.readable
           THEN /\ images_dir' = WriteImages(images_dir,
                                     post_data.post_characteristics.image_files,
                                     1, file_num)
                /\ exdir' = WriteFile(exdir, JsonFilename(post_data), DumpPost(post_data))
                /\ all_posts' = Append(all_posts, post_data)
                /\ UNCHANGED conv_errors
           ELSE /\ conv_errors' = Append(conv_errors, file_num)
                /\ UNCHANGED <<images_dir, exdir, all_posts>>
    /\ IF file_num < Len(excel_files)
       THEN file_num' = file_num + 1 /\ UNCHANGED cpc
       ELSE cpc' = "combine" /\ UNCHANGED file_num
    /\ UNCHANGED excel_files
    /\ UNCHANGED <<cell, number, ctxVars, raceVars, aggVars, genVars, mgrVars>>

\* lines 310-316
WriteAllPosts ==
    /\ cpc = "combine"
    /\ exdir' = IF all_posts # <<>>
                THEN WriteFile(exdir, CombinedFilename, DumpPosts(all_posts))
                ELSE exdir
    /\ cpc' = "done"
    /\ UNCHANGED <<excel_files, file_num, images_dir, all_posts, conv_errors>>
    /\ UNCHANGED <<cell, number, ctxVars, raceVars, aggVars, genVars, mgrVars>>

\* the run starts with the workbooks given and an empty examples directory
ConvStart(books) ==
    /\ CtxIdle
    /\ AggIdle
    /\ GenIdle
    /\ MgrIdle
    /\ cell = NaN
    /\ number = None
    /\ excel_files = books
    /\ cpc = "find"
    /\ file_num = 0
    /\ exdir = <<>>
    /\ images_dir = <<>>
    /\ all_posts = <<>>
    /\ conv_errors = <<>>

NextConv == FindExcelFiles \/ ConvertExcelFile \/ WriteAllPosts

\* Sheets: one workbook without images, its rows any sequence of up to
\* MaxRows of these rows
RowPool ==
    {Row(Word("Content"), NaN),
     Row(NaN, Word("hello")),
     Row(Word("why"), NaN),
     Row(Word("Image"), NaN),
     Row(Str(<<" ", "IMAGE">>), Word("pic")),
     Row(Word("Impressions"), Str(<<"5", ",", "5", "3", "7">>)),
     Row(NaN, NaN)}

InitSheet ==
    \E rows \in SeqsUpTo(RowPool, MaxRows) :
        ConvStart(<<Workbook(TRUE, rows, Zip(<<>>))>>)

SpecSheet == InitSheet /\ [][NextConv]_vars

\* Archives: two workbooks of the same post with the same archive, which is
\* no ZIP file or has up to MaxEntries of these entries
EntryPool ==
    {ZipEntry(TRUE, FALSE, Some("png")),
     ZipEntry(TRUE, FALSE, Some("jpeg")),
     ZipEntry(TRUE, FALSE, None),
     ZipEntry(TRUE, TRUE, None),
     ZipEntry(FALSE, FALSE, Some("xml"))}

UrlRow == Row(Word("Post URL"), Str(<<"urn", ":", "7", "3", "7", "8">>))

ZipRowsA == <<UrlRow, Row(Word("Content"), NaN), Row(NaN, Word("hello"))>>
ZipRowsB == <<Row(Word("Post Date"), Word("2025-10-01")), UrlRow>>

ArchivePool == {NotZip} \cup {Zip(es) : es \in SeqsUpTo(EntryPool, MaxEntries)}

InitZip ==
    \E archive \in ArchivePool :
        ConvStart(<<Workbook(TRUE, ZipRowsA, archive), Workbook(TRUE, ZipRowsB, archive)>>)

SpecZip == InitZip /\ [][NextConv]_vars

\* Directories: up to MaxBooks of these workbooks, in glob order
DatedRows(id, reactions, text) ==
    <<Row(Word("Post URL"), Str(<<"urn", ":">> \o id)),
      Row(Word("Post Date"), Word("Sep 30, 2025")),
      Row(Word("Post Publish Time"), Word("6:54 AM")),
      Row(Word("Impressions"), Str(<<"1", ",", "2", "0", "0">>)),
      Row(Word("Reactions"), IntCell(reactions)),
      Row(Word("Comments"), FloatCell(3, 1)),
      Row(Word("Content"), NaN)>> \o text \o <<Row(Word("Image"), NaN)>>

TextA ==
    <<Row(NaN, Str(<<"hello", " ", "\"", "why", "\"", "?">>)),
      Row(NaN, Str(<<"-", " ", "item", " ", "\\", " ", "#", "tag">>))>>

TextB == <<Row(NaN, Str(<<"https", ":", "/", "/", "x">>))>>

BookPool ==
    {Workbook(TRUE, DatedRows(<<"7", "3">>, 97, TextA), Zip(<<ZipEntry(TRUE, FALSE, Some("png"))>>)),
     Workbook(TRUE, DatedRows(<<"7", "4">>, 5, TextB), Zip(<<>>)),
     Workbook(TRUE, <<Row(Word("Post URL"), Str(<<"9", "9">>)), Row(Word("Content"), NaN),
                      Row(NaN, Word("hello"))>>, NotZip),
     Workbook(TRUE, <<Row(Word("Content"), NaN), Row(NaN, Word("why"))>>,
              Zip(<<ZipEntry(TRUE, FALSE, None)>>)),
     Workbook(TRUE, <<>>, Zip(<<ZipEntry(TRUE, FALSE, Some("png"))>>)),
     Workbook(FALSE, <<>>, NotZip)}

InitConv ==
    \E books \in SeqsUpTo(BookPool, MaxBooks) : ConvStart(books)

SpecConv == InitConv /\ [][NextConv]_vars

----------------------------------------------------------------------------
(* The scripts run one after the other on the examples directory: the       *)
(* converter first, then analyze_performance.py or the insight loading of   *)
(* generate.py on the files the converter wrote there.                      *)

\* the characters of a JSON string as one str
RECURSIVE Joined(_)
Joined(cs) == IF cs = <<>> THEN "" ELSE cs[1] \o Joined(Tail(cs))

\* a date the converter wrote, as strptime(date_str, "%Y-%m-%d") takes it:
\* 2025-09-29 is a Monday
DateString(opt) ==
    IF opt = None THEN None
    ELSE IF opt[1] = <<"2025-09-30">> THEN OkDate(1)
    ELSE IF opt[1] = <<"2025-10-01">> THEN OkDate(2)
    ELSE BadDate

\* a time the converter wrote, as int(time_str.split(':')[0]) takes it
TimeString(opt) ==
    IF opt = None THEN None
    ELSE IF opt[1] = <<"06:54">> THEN OkTime(6, 54)
    ELSE IF opt[1] = <<"18:54">> THEN OkTime(18, 54)
    ELSE BadTime

\* json.load of a record file, with the keys the loaders and the analysis
\* read: the converter writes every one of them
RecordView(v) ==
    LET data == LoadPost(v)
        e == data.engagement
        c == data.post_characteristics
    IN  Post(Joined(data.content),
             Engagement(Some(e.impressions), Some(e.reactions), Some(e.comments),
                        Some(e.shares)),
             DateString(data.metadata.date), TimeString(data.metadata.time),
             Some(c.character_count),
             {FormatKeys[k] : k \in {n \in 1..Len(FormatKeys) : c[FormatKeys[n]]}},
             Some(c.type), Some(data.context.topic), Some(data.context.goal))

\* json.load of one *.json file of the directory: all_posts.json is a list
ReadJson(text) ==
    IF text.j = "array" THEN ListFile ELSE DictFile(RecordView(text))

\* a faulty variant: the records of a list-shaped file are taken one by one
RECURSIVE ReadDirWithListItems(_)
ReadDirWithListItems(dir) ==
    IF dir = <<>> THEN <<>>
    ELSE LET rest == ReadDirWithListItems(SubSeq(dir, 1, Len(dir) - 1))
             text == dir[Len(dir)].text
         IN  IF text.j = "array"
             THEN rest \o [i \in 1..Len(text.items) |-> DictFile(RecordView(text.items[i]))]
             ELSE Append(rest, ReadJson(text))

\* examples_path.glob("*.json") and json.load of each file; no name the
\* converter writes contains 'example'
ReadDir(dir) == [i \in 1..Len(dir) |-> ReadJson(dir[i].text)]

\* analyze_performance.py or generate.py started after the conversion, on
\* the directory as the converter left it
StartOnExamples ==
    /\ cpc = "done"
    /\ apc = "idle"
    /\ files' = ReadDir(exdir)
    /\ apc' \in {"load", "insights"}
    /\ UNCHANGED <<posts, timing, chars, performers, patterns, recs, insights, err,
                 warnings, ctxVars, raceVars, extVars>>

NextPipe == NextConv \/ StartOnExamples \/ Next

\* up to MaxPipeBooks of the workbooks of BookPool, in glob order
InitPipe ==
    \E books \in SeqsUpTo(BookPool, MaxPipeBooks) : ConvStart(books)

SpecPipe == InitPipe /\ [][NextPipe]_vars

----------------------------------------------------------------------------
(* manage_context.py: create, show, delete and list, one command per run.   *)
(* A context file is None (no such file) or Some of its key/value pairs.    *)

\* create_context_template, lines 52-70
TemplateContext ==
    <<[k |-> "topic", v |-> "Your Topic Name"],
      [k |-> "description", v |-> "Brief description of what this topic is about"],
      [k |-> "target_audience", v |-> "Who is this content for?"],
      [k |-> "themes",
       v |-> <<"Theme or angle 1", "Theme or angle 2", "Theme or angle 3",
               "Add more themes...">>],
      [k |-> "key_messages",
       v |-> <<"Key message or perspective 1", "Key message or perspective 2",
               "Add more messages...">>],
      [k |-> "posting_frequency", v |-> "How often?"],
      [k |-> AnglesKey, v |-> <<>>]>>

\* a context a user filled in and generated two posts from
UsedContext ==
    <<TopicPair, ThemesPair, MessagesPair, FreqPair,
      [k |-> AnglesKey, v |-> OldHistory(2)]>>

ContextFiles == {None, Some(TemplateContext), Some(UsedContext)}

\* what the user types at the prompt of delete
Answers ==
    {<<"y", "e", "s">>, <<"Y", "E", "S">>, <<"Y", "e", "s">>, <<"y">>, <<"n", "o">>,
     <<>>, <<" ", "y", "e", "s">>, <<"y", "e", "s", "!">>}

\* str.lower() on the letters used
LowerChar(c) ==
    CASE c = "Y" -> "y"
      [] c = "E" -> "e"
      [] c = "S" -> "s"
      [] c = "N" -> "n"
      [] c = "O" -> "o"
      [] OTHER -> c

\* a faulty variant: a first letter y is enough
ConfirmedByFirstLetter(answer) == answer # <<>> /\ LowerChar(answer[1]) = "y"

\* confirm.lower() == 'yes'
Confirmed(answer) ==
    [i \in 1..Len(answer) |-> LowerChar(answer[i])] = <<"y", "e", "s">>

\* file_path.exists()
Exists(dir, name) == dir[name] # None

\* a faulty variant: the template is written over a context of that name
AfterCreateOverwriting(dir, name) == [dir EXCEPT ![name] = Some(TemplateContext)]

\* create_context_template: the directory after the call
AfterCreate(dir, name) ==
    IF Exists(dir, name) THEN dir ELSE [dir EXCEPT ![name] = Some(TemplateContext)]

\* delete_context: the directory after the call
AfterDelete(dir, name, answer) ==
    IF Exists(dir, name) /\ Confirmed(answer) THEN [dir EXCEPT ![name] = None] ELSE dir

\* sys.exit(1) after the error line; a command that returns ends main() with
\* status 0
Failed(error) == [exit |-> Some(1), error |-> error]
Returned == [exit |-> Some(0), error |-> ""]

\* 'manage_context.py create NAME'
CreateContext ==
    /\ ncommands < MaxCommands
    /\ \E name \in ContextNames :
          /\ command' = [command |-> "create", name |-> name, answer |-> <<>>]
          /\ contexts' = AfterCreate(contexts, name)
          /\ result' = IF Exists(contexts, name)
                       THEN Failed("Error: Context already exists")
                       ELSE Returned
    /\ before' = contexts
    /\ ncommands' = ncommands + 1
    /\ UNCHANGED <<ctxVars, raceVars, aggVars, genVars, convVars>>

\* 'manage_context.py show NAME': reads the file and prints
ShowContext ==
    /\ ncommands < MaxCommands
    /\ \E name \in ContextNames :
          /\ command' = [command |-> "show", name |-> name, answer |-> <<>>]
          /\ result' = IF Exists(contexts, name)
                       THEN Returned
                       ELSE Failed("Error: Context not found")
    /\ before' = contexts
    /\ ncommands' = ncommands + 1
    /\ UNCHANGED <<contexts, ctxVars, raceVars, aggVars, genVars, convVars>>

\* 'manage_context.py delete NAME': the question is asked only when the file
\* exists
DeleteContext ==
    /\ ncommands < MaxCommands
    /\ \E name \in ContextNames :
          IF Exists(contexts, name)
          THEN \E answer \in Answers :
                  /\ command' = [command |-> "delete", name |-> name, answer |-> answer]
                  /\ contexts' = AfterDelete(contexts, name, answer)
                  /\ result' = Returned
          ELSE /\ command' = [command |-> "delete", name |-> name, answer |-> <<>>]
               /\ contexts' = contexts
               /\ result' = Failed("Error: Context not found")
    /\ before' = contexts
    /\ ncommands' = ncommands + 1
    /\ UNCHANGED <<ctxVars, raceVars, aggVars, genVars, convVars>>

\* 'manage_context.py list': reads every file and prints
ListContexts ==
    /\ ncommands < MaxCommands
    /\ command' = [command |-> "list", name |-> "", answer |-> <<>>]
    /\ result' = Returned
    /\ before' = contexts
    /\ ncommands' = ncommands + 1
    /\ UNCHANGED <<contexts, ctxVars, raceVars, aggVars, genVars, convVars>>

\* 'manage_context.py' without a command: the help is printed, status 1
NoCommand ==
    /\ ncommands < MaxCommands
    /\ command' = [command |-> "", name |-> "", answer |-> <<>>]
    /\ result' = [exit |-> Some(1), error |-> ""]
    /\ before' = contexts
    /\ ncommands' = ncommands + 1
    /\ UNCHANGED <<contexts, ctxVars, raceVars, aggVars, genVars, convVars>>

\* any contexts directory, and no command run yet
InitMgr ==
    /\ CtxIdle
    /\ AggIdle
    /\ GenIdle
    /\ ConvIdle
    /\ contexts \in [ContextNames -> ContextFiles]
    /\ command = [command |-> "none", name |-> "", answer |-> <<>>]
    /\ before = contexts
    /\ result = [exit |-> None, error |-> ""]
    /\ ncommands = 0

NextMgr == CreateContext \/ ShowContext \/ DeleteContext \/ ListContexts \/ NoCommand

SpecMgr == InitMgr /\ [][NextMgr]_vars

----------------------------------------------------------------------------
(* Claims about the context history *)

Range(seq) == {seq[i] : i \in 1..Len(seq)}

\* C1: after any sequence of updates, from any history or none, the stored
\* history has at most 10 entries and its first entry is the one the most
\* recent update added.
C1_HistoryBoundedNewestFirst ==
    nUpdates > 0 =>
        /\ HasKey(ctxFile, AnglesKey)
        /\ Len(GetKey(ctxFile, AnglesKey)) >= 1
        /\ Len(GetKey(ctxFile, AnglesKey)) <= 10
        /\ GetKey(ctxFile, AnglesKey)[1] = lastEntry

\* a full history was loaded, updated twice or more and is still full
C1_Witness ==
    /\ nUpdates >= 2
    /\ Len(prevAngles) = 10
    /\ Len(Angles(ctxFile)) = 10
    /\ Angles(ctxFile)[1] = lastEntry

\* C2: an update adding e to history h leaves e followed by the first
\* min(len(h), 9) entries of h, in their order: only the old end is dropped.
C2_DropOldest ==
    nUpdates > 0 =>
        LET h == prevAngles
            kept == IF Len(h) <= 9 THEN Len(h) ELSE 9
        IN  /\ Len(Angles(ctxFile)) = kept + 1
            /\ Angles(ctxFile)[1] = lastEntry
            /\ \A i \in 1..kept : Angles(ctxFile)[i + 1] = h[i]

\* an update of a full history: its oldest entry is gone, the rest moved down
C2_Witness ==
    /\ nUpdates > 0
    /\ Len(prevAngles) = 10
    /\ prevAngles[10] \notin Range(Angles(ctxFile))
    /\ Angles(ctxFile)[10] = prevAngles[9]

\* C3: the file is read-modify-written with no lock: it always holds what the
\* last writer made of its own earlier read, whatever was written in between,
\* so the other invocation's entry can be lost.
C3_LastWriterWins ==
    lastWriter \in Procs =>
        LET mine == <<entry[lastWriter]>> \o Angles(ctxData[lastWriter])
        IN  Angles(ctxFile) = SubSeq(mine, 1, IF Len(mine) <= 10 THEN Len(mine) ELSE 10)

\* both invocations finished, they added different entries, and one entry is
\* absent from the final history
C3_Witness ==
    /\ \A p \in Procs : pc[p] = "done"
    /\ entry[1] # entry[2]
    /\ \E p \in Procs : entry[p] \notin Range(Angles(ctxFile))

----------------------------------------------------------------------------
(* Claims about the engagement rate and the aggregation *)

TimingDone ==
    apc \in {"characteristics", "performers", "patterns", "recommend", "done", "crashed"}
CharacteristicsDone ==
    apc \in {"performers", "patterns", "recommend", "done", "crashed"}

PostIds == 1..Len(posts)

\* the tagged rates every analysis of the run has computed so far
ComputedRates ==
    {[i |-> performers[j].i, r |-> performers[j].rate] : j \in 1..Len(performers)}
    \cup UNION {Range(chars.length_buckets[b].rates) : b \in 1..Len(chars.length_buckets)}
    \cup UNION {Range(chars.type_data[b].rates) : b \in 1..Len(chars.type_data)}

\* C4: the engagement rate of a record is 0 when impressions is 0 or absent,
\* whatever the other counts are, and (reactions + comments + shares) /
\* impressions * 100 otherwise.
C4_EngagementRate ==
    \A e \in ComputedRates :
        LET eng == posts[e.i].engagement
            total == (IF eng.reactions = <<>> THEN 0 ELSE eng.reactions[1])
                     + (IF eng.comments = <<>> THEN 0 ELSE eng.comments[1])
                     + (IF eng.shares = <<>> THEN 0 ELSE eng.shares[1])
        IN  /\ e.r[2] > 0
            /\ IF eng.impressions = <<>> \/ eng.impressions = <<0>>
               THEN e.r[1] = 0
               ELSE e.r[1] * eng.impressions[1] = 100 * total * e.r[2]

\* rates were computed for a record with reactions but 0 impressions, for one
\* with comments but no impressions field, and for one whose rate is 5
C4_Witness ==
    /\ CharacteristicsDone
    /\ \E e \in ComputedRates :
          /\ posts[e.i].engagement.impressions = <<0>>
          /\ posts[e.i].engagement.reactions = <<7>>
          /\ e.r = <<0, 1>>
    /\ \E e \in ComputedRates :
          /\ posts[e.i].engagement.impressions = <<>>
          /\ posts[e.i].engagement.comments = <<4>>
          /\ e.r = <<0, 1>>
    /\ \E e \in ComputedRates :
          /\ posts[e.i].engagement.impressions = <<200>>
          /\ posts[e.i].engagement.shares = <<2>>
          /\ e.r = <<5, 1>>

\* the sum of the engagement rates of the records in S
RECURSIVE RateSumOver(_)
RateSumOver(S) ==
    IF S = {} THEN Zero
    ELSE LET i == CHOOSE i \in S : TRUE
         IN  RatAdd(EngagementRate(posts[i]), RateSumOver(S \ {i}))

\* a printed line reports the mean rate and the count of the records in S
LineIsMeanOf(line, S) ==
    /\ S # {}
    /\ line.count = Cardinality(S)
    /\ RatMulInt(line.avg, Cardinality(S)) = RateSumOver(S)

HasDay(i) ==
    /\ posts[i].metadata.date # <<>>
    /\ posts[i].metadata.date[1].kind = "ok"
HasHour(i) ==
    /\ posts[i].metadata.time # <<>>
    /\ posts[i].metadata.time[1].kind = "ok"

DayMembers(day) ==
    {i \in PostIds : HasDay(i) /\ WeekdayNames[(posts[i].metadata.date[1].n % 7) + 1] = day}
HourMembers(hour) ==
    {i \in PostIds : HasHour(i) /\ posts[i].metadata.time[1].h = hour}
CharCount(i) ==
    IF posts[i].post_characteristics.character_count = <<>> THEN 0
    ELSE posts[i].post_characteristics.character_count[1]
LengthMembers(name) ==
    {i \in PostIds :
        \/ name = "Short (0-500 chars)" /\ CharCount(i) <= 500
        \/ name = "Medium (501-1000 chars)" /\ CharCount(i) >= 501 /\ CharCount(i) <= 1000
        \/ name = "Long (1001-1500 chars)" /\ CharCount(i) >= 1001 /\ CharCount(i) <= 1500
        \/ name = "Very Long (1501+ chars)" /\ CharCount(i) >= 1501}
FlagMembers(flag) ==
    {i \in PostIds : flag \in posts[i].post_characteristics.flags}
TypeMembers(type) ==
    {i \in PostIds :
        IF posts[i].post_characteristics.type = <<>> THEN type = "unknown"
        ELSE posts[i].post_characteristics.type[1] = type}

\* C5: every reported bucket (day, hour, length range, format flag, post type)
\* shows the arithmetic mean of the rates of exactly its records, and no
\* bucket without records is reported.
C5_BucketMeans ==
    /\ \A j \in 1..Len(timing.days) :
          LineIsMeanOf(timing.days[j], DayMembers(timing.days[j].bucket))
    /\ \A j \in 1..Len(timing.times) :
          LineIsMeanOf(timing.times[j], HourMembers(timing.times[j].bucket))
    /\ \A j \in 1..Len(chars.lengths) :
          LineIsMeanOf(chars.lengths[j], LengthMembers(chars.lengths[j].bucket))
    /\ \A j \in 1..Len(chars.formats) :
          LineIsMeanOf(chars.formats[j], FlagMembers(chars.formats[j].bucket))
    /\ \A j \in 1..Len(chars.types) :
          LineIsMeanOf(chars.types[j], TypeMembers(chars.types[j].bucket))

\* the spec's example: a day bucket and a format bucket of two records with
\* rates 10 and 5 are reported with mean 7.5, and fewer than all the length
\* and format buckets are reported
C5_Witness ==
    /\ CharacteristicsDone
    /\ \E j \in 1..Len(timing.days) :
          /\ timing.days[j].count = 2
          /\ timing.days[j].avg = <<15, 2>>
          /\ {EngagementRate(posts[i]) : i \in DayMembers(timing.days[j].bucket)}
                = {<<10, 1>>, <<5, 1>>}
    /\ \E j \in 1..Len(chars.formats) :
          /\ chars.formats[j].count = 2
          /\ chars.formats[j].avg = <<15, 2>>
    /\ Len(chars.lengths) < 4
    /\ Len(chars.formats) < 7

\* a selection of record indices out of the set ranked: the largest quarter
\* (at least one) of them, none twice, and nothing left out beats a selected
\* record
IsTopQuartile(selected, ranked, rateOf) ==
    LET n == Cardinality(ranked)
        chosen == {selected[j] : j \in 1..Len(selected)}
    IN  /\ Len(selected) = (IF n \div 4 >= 1 THEN n \div 4 ELSE 1)
        /\ Len(selected) >= 1
        /\ Cardinality(chosen) = Len(selected)
        /\ chosen \subseteq ranked
        /\ \A i \in ranked \ chosen : \A k \in chosen :
              ~(rateOf[k][1] * rateOf[i][2] < rateOf[i][1] * rateOf[k][2])

\* the records load_performance_insights loaded, and those it ranks
InsightPosts == LoadedPosts(files)
InsightRanked ==
    {i \in 1..Len(InsightPosts) :
        /\ InsightPosts[i].engagement.impressions # <<>>
        /\ InsightPosts[i].engagement.impressions[1] > 0}

\* C6: the top-quartile selection over a non-empty list of n ranked records
\* has exactly max(1, floor(n/4)) records, and no record left out has a
\* strictly higher rate than a selected one.  The analyzer ranks every loaded
\* record; the insight loader ranks the records with impressions > 0.
C6_TopQuartile ==
    /\ (apc \in {"recommend", "done"} /\ posts # <<>>) =>
          IsTopQuartile(patterns.top_posts, PostIds,
                        [i \in PostIds |-> EngagementRate(posts[i])])
    /\ apc = "done" =>
          IsTopQuartile(recs.top_posts, PostIds,
                        [i \in PostIds |-> EngagementRate(posts[i])])
    /\ (apc = "generating" /\ ~insights.none) =>
          IsTopQuartile(insights.top_posts, InsightRanked,
                        [i \in 1..Len(InsightPosts) |-> EngagementRate(InsightPosts[i])])

\* eight records give a selection of two, with a lower-rated record left out
\* and a record of the same rate as a selected one left out as well
C6_Witness ==
    /\ apc = "done"
    /\ Len(posts) = 8
    /\ Len(recs.top_posts) = 2
    /\ \E i \in PostIds : \E k \in PostIds :
          /\ i \notin Range(recs.top_posts)
          /\ k \in Range(recs.top_posts)
          /\ EngagementRate(posts[i]) = EngagementRate(posts[k])
    /\ \E i \in PostIds :
          /\ i \notin Range(recs.top_posts)
          /\ EngagementRate(posts[i]) = <<0, 1>>

\* C7: no run of the analyzer divides by zero: every average is taken over at
\* least one record or skipped, also when no file passes validation.
C7_NoDivisionByZero == err # "ZeroDivisionError"

\* the lines of one report are in descending order of mean
Descending(lines) ==
    \A j \in 1..Len(lines) : \A k \in (j + 1)..Len(lines) :
        ~RatLess(lines[j].avg, lines[k].avg)

\* where a bucket first occurs in the input
FirstOf(S) == CHOOSE i \in S : \A k \in S : i <= k

\* lines with equal means are in the order their buckets first occur (two
\* flag buckets can first occur in the same record)
TiesInInputOrder(lines, Members(_)) ==
    \A j \in 1..Len(lines) : \A k \in (j + 1)..Len(lines) :
        lines[j].avg = lines[k].avg =>
            FirstOf(Members(lines[j].bucket)) <= FirstOf(Members(lines[k].bucket))

\* the mean rate of the top posts with one topic, or goal
TopicMembers(topic) ==
    {i \in Range(patterns.top_posts) :
        (IF posts[i].context.topic = <<>> THEN "unknown"
         ELSE posts[i].context.topic[1]) = topic}
GoalMembers(goal) ==
    {i \in Range(patterns.top_posts) :
        (IF posts[i].context.goal = <<>> THEN "unknown"
         ELSE posts[i].context.goal[1]) = goal}
MeanLines(counts, Members(_)) ==
    [j \in 1..Len(counts) |->
        [bucket |-> counts[j].key,
         avg |-> RatDivInt(RateSumOver(Members(counts[j].key)),
                           Cardinality(Members(counts[j].key)))]]

\* C8 as stated: on every axis (day, hour, length range, format flag, post
\* type, topic, goal) the buckets are listed by descending mean rate, equal
\* means in order of first occurrence.
C8_EveryAxisRanked ==
    /\ Descending(timing.days) /\ TiesInInputOrder(timing.days, DayMembers)
    /\ Descending(timing.times) /\ TiesInInputOrder(timing.times, HourMembers)
    /\ Descending(chars.lengths) /\ TiesInInputOrder(chars.lengths, LengthMembers)
    /\ Descending(chars.formats) /\ TiesInInputOrder(chars.formats, FlagMembers)
    /\ Descending(chars.types) /\ TiesInInputOrder(chars.types, TypeMembers)
    /\ Descending(MeanLines(patterns.topics, TopicMembers))
    /\ TiesInInputOrder(MeanLines(patterns.topics, TopicMembers), TopicMembers)
    /\ Descending(MeanLines(patterns.goals, GoalMembers))
    /\ TiesInInputOrder(MeanLines(patterns.goals, GoalMembers), GoalMembers)

\* the buckets of an axis that the report leaves out are no better than the
\* ones it lists, and the listed ones are distinct
ListsTheBest(lines, data, limit) ==
    /\ Len(lines) = (IF Len(data) <= limit THEN Len(data) ELSE limit)
    /\ \A j \in 1..Len(lines) : \A k \in 1..Len(lines) :
          lines[j].bucket = lines[k].bucket => j = k
    /\ \A d \in 1..Len(data) :
          \/ \E j \in 1..Len(lines) : lines[j].bucket = data[d].key
          \/ \A j \in 1..Len(lines) :
                data[d].total_engagement[1] * lines[j].avg[2]
                    <= lines[j].avg[1] * data[d].total_engagement[2] * data[d].count

\* C8, amended: on the day-of-week and hour-of-day axes the report lists the
\* best buckets (at most 3 days, at most 5 hours) by descending mean rate,
\* equal means in the order the buckets first occur in the input.
C8_TimeAxesRanked ==
    /\ Descending(timing.days) /\ TiesInInputOrder(timing.days, DayMembers)
    /\ ListsTheBest(timing.days, timing.day_data, 3)
    /\ Descending(timing.times) /\ TiesInInputOrder(timing.times, HourMembers)
    /\ ListsTheBest(timing.times, timing.time_data, 5)

\* three day buckets: Thursday with mean 20, then Tuesday and Monday with
\* mean 5 each, Tuesday first because it comes first in the input
C8_Witness ==
    /\ TimingDone
    /\ Len(timing.days) = 3
    /\ timing.days[1].avg = <<20, 1>>
    /\ timing.days[2].avg = <<5, 1>> /\ timing.days[2].bucket = "Tuesday"
    /\ timing.days[3].avg = <<5, 1>> /\ timing.days[3].bucket = "Monday"
    /\ Len(timing.times) = 3
    /\ timing.times[2].avg = timing.times[3].avg
    /\ timing.times[2].bucket < timing.times[3].bucket

\* the places <<bucket, position>> where record i sits in the buckets of one
\* axis; Tags(b) is the sequence of record indices of bucket b
Slots(n, Tags(_), i) ==
    UNION {{<<b, j>> : j \in {j \in 1..Len(Tags(b)) : Tags(b)[j] = i}} : b \in 1..n}

DaySlots(i) ==
    LET Tags(b) == timing.day_data[b].posts IN Slots(Len(timing.day_data), Tags, i)
HourSlots(i) ==
    LET Tags(b) == timing.time_data[b].posts IN Slots(Len(timing.time_data), Tags, i)
TypeSlots(i) ==
    LET Tags(b) == [j \in 1..Len(chars.type_data[b].rates) |-> chars.type_data[b].rates[j].i]
    IN  Slots(Len(chars.type_data), Tags, i)
LengthSlots(i) ==
    LET Tags(b) == [j \in 1..Len(chars.length_buckets[b].rates) |->
                        chars.length_buckets[b].rates[j].i]
    IN  Slots(Len(chars.length_buckets), Tags, i)
FlagSlots(flag, i) ==
    {<<b, j>> \in {b \in 1..Len(chars.format_data) : chars.format_data[b].key = flag}
                  \X (1..Len(posts)) :
        /\ j <= Len(chars.format_data[b].rates)
        /\ chars.format_data[b].rates[j].i = i}

RECURSIVE SumCounts(_)
SumCounts(lines) ==
    IF lines = <<>> THEN 0
    ELSE SumCounts(SubSeq(lines, 1, Len(lines) - 1)) + lines[Len(lines)].count

\* C9: the buckets of one axis do not overlap: a record is counted in at most
\* one day bucket, one hour bucket and one post-type bucket, and in exactly
\* one length bucket, the one of its range (0-500, 501-1000, 1001-1500,
\* 1501+), so the length counts sum to the number of records.
C9_BucketsDisjoint ==
    /\ \A i \in PostIds :
          /\ Cardinality(DaySlots(i)) <= 1
          /\ Cardinality(HourSlots(i)) <= 1
          /\ Cardinality(TypeSlots(i)) <= 1
    /\ CharacteristicsDone =>
          /\ Len(chars.length_buckets) = 4
          /\ \A i \in PostIds :
                /\ Cardinality(LengthSlots(i)) = 1
                /\ \A s \in LengthSlots(i) :
                      i \in LengthMembers(chars.length_buckets[s[1]].key)
          /\ SumCounts(chars.lengths) = Len(posts)

\* three records in two length buckets, one of them exactly 500 characters
\* long and one without a character count; two share a type, one has no day
C9_Witness ==
    /\ CharacteristicsDone
    /\ Len(posts) = 3
    /\ Len(chars.lengths) = 2
    /\ \E i \in PostIds : CharCount(i) = 500
    /\ \E i \in PostIds : posts[i].post_characteristics.character_count = <<>>
    /\ \E b \in 1..Len(chars.type_data) : Len(chars.type_data[b].rates) = 2
    /\ \E i \in PostIds : DaySlots(i) = {}

\* C10: a record whose date (or time) is missing or does not parse is in no
\* day (or hour) bucket, and is still counted in its length bucket and in the
\* bucket of every format flag it has set.
C10_UndatedStillCounted ==
    /\ \A i \in PostIds :
          /\ ~HasDay(i) => DaySlots(i) = {}
          /\ ~HasHour(i) => HourSlots(i) = {}
    /\ CharacteristicsDone =>
          \A i \in PostIds :
              (~HasDay(i) \/ ~HasHour(i)) =>
                  /\ Cardinality(LengthSlots(i)) = 1
                  /\ \A flag \in posts[i].post_characteristics.flags :
                        Cardinality(FlagSlots(flag, i)) = 1

\* a record with an unparsable date and one with no date and an unparsable
\* time, each with a flag set, next to a record that is in a day bucket
C10_Witness ==
    /\ CharacteristicsDone
    /\ \E i \in PostIds :
          /\ posts[i].metadata.date # <<>>
          /\ posts[i].metadata.date[1].kind = "bad"
          /\ posts[i].metadata.time = <<>>
          /\ FlagSlots("has_link", i) # {}
          /\ LengthSlots(i) # {}
    /\ \E i \in PostIds :
          /\ posts[i].metadata.date = <<>>
          /\ posts[i].metadata.time # <<>>
          /\ posts[i].metadata.time[1].kind = "bad"
          /\ FlagSlots("has_question", i) # {}
    /\ \E i \in PostIds : DaySlots(i) # {} /\ HourSlots(i) # {}

----------------------------------------------------------------------------
(* Claims about the majority threshold *)

\* the number of the selected records that have the flag set
FlagSetIn(ps, selected, flag) ==
    Cardinality({j \in 1..Len(selected) :
                    flag \in ps[selected[j]].post_characteristics.flags})

----------------------------------------------------------------------------
(* Claims about the prompt and the runs that call the external generator *)

\* C12: a prompt built by build_manual_prompt or build_context_prompt leaves
\* out every section whose input is absent or empty: no section header is
\* followed by an empty body.
C12_NoEmptySection == \A i \in 1..Len(prompt) : prompt[i].body # <<>>

\* C16: the external generator is never retried.  No variant (and no style
\* analysis) invokes it twice; a failed invocation is the last one, the run
\* has exited with status 1, no draft was saved for that variant and the
\* context file was not updated.
C16_NoRetry ==
    /\ \A i \in 1..Len(calls) : \A j \in 1..Len(calls) :
          calls[i].variant = calls[j].variant => i = j
    /\ \A i \in 1..Len(calls) :
          calls[i].outcome # "ok" =>
              /\ i = Len(calls)
              /\ gpc = "exited"
              /\ exit = Some(1)
              /\ \A k \in 1..Len(all_drafts) : all_drafts[k].variant # calls[i].variant
              /\ nUpdates = 0
              /\ ctxFile \in GenContexts

\* the second variant fails after the first was generated and saved, in a
\* run that was asked to update the context
C16_Witness ==
    /\ args.mode = "context" /\ args.update_context /\ args.angle_summary # None
    /\ Len(calls) = 2
    /\ calls[1].outcome = "ok"
    /\ calls[2].outcome = "nonzero"
    /\ Len(all_drafts) = 1
    /\ gpc = "exited"

\* the error lines load_style_guide and load_context print before sys.exit(1)
UserFacingErrors == {"Error: Style guide not found", "Error: Context not found"}

\* a generate.py run whose command line was accepted and that lacks
\* config.yaml, the style guide or (in context mode) the named context
PrerequisiteMissing ==
    /\ args.script = "generate.py"
    /\ gpc # "args"
    /\ exit # Some(2)
    /\ \/ ~env.config
       \/ ~env.style_guide
       \/ (args.mode = "context" /\ ~env.context)

\* C17: a missing configuration file, style guide or named context stops
\* generate.py with a user-facing error message and a non-zero exit, before
\* the external generator is invoked, a draft saved or the context written.
C17_MissingPrerequisiteFatal ==
    PrerequisiteMissing =>
        /\ calls = <<>>
        /\ all_drafts = <<>>
        /\ nUpdates = 0
        /\ gpc # "done"
        /\ gpc = "exited" => (exit = Some(1) /\ message \in UserFacingErrors)

----------------------------------------------------------------------------
(* Claims about the converter *)

\* a string of digits and thousands separators, with at least one digit
Grouped(cs) ==
    /\ \A i \in 1..Len(cs) : IsDigit(cs[i]) \/ cs[i] = ","
    /\ \E i \in 1..Len(cs) : IsDigit(cs[i])

\* a string that denotes no integer: it holds a letter or a decimal point, or
\* no digit at all
NotANumber(cs) ==
    \/ \E i \in 1..Len(cs) : cs[i] \in {"x", "."}
    \/ \A i \in 1..Len(cs) : ~IsDigit(cs[i])

\* C13: parse_number returns the integer left after stripping the thousands
\* separators from a numeric string, and 0 for a missing or unparsable value;
\* every call returns.
C13_ParseNumber ==
    number # None =>
        /\ IsNa(cell) => number[1] = 0
        /\ (cell.kind = "str" /\ Grouped(cell.text)) =>
              number[1] = DigitsValue(SelectSeq(cell.text, IsDigit))
        /\ (cell.kind \in {"str", "object"} /\ NotANumber(cell.text)) =>
              number[1] = 0

\* '5,537' gives 5537
C13_Witness ==
    /\ cell = ExampleCell
    /\ number = Some(5537)

\* the lines of the rows a..b of a sheet
RECURSIVE BlockLines(_, _, _)
BlockLines(df, a, b) ==
    IF a > b THEN <<>> ELSE RowLines(df[a]) \o BlockLines(df, a + 1, b)

\* the rows labelled Content, and the Image rows after row s
ContentLabels(df) == {i \in 1..Len(df) : LabelOf(df[i]) = <<"Content">>}
SentinelsAfter(df, s) == {i \in (s + 1)..Len(df) : IsImageRow(df[i])}

Least(S) == CHOOSE x \in S : \A y \in S : x <= y
Greatest(S) == CHOOSE x \in S : \A y \in S : x >= y

\* C14: the content of a converted record is the lines of the rows after the
\* Content label (the last one, if the sheet has several) and before the first
\* row after it labelled Image in any case; no row at or after that row
\* contributes, and without such a row the block runs to the end of the sheet.
\* A sheet without a Content label has empty content.
C14_ContentBlock ==
    all_posts # <<>> =>
        LET df == excel_files[1].rows
            content == all_posts[1].content
        IN  IF ContentLabels(df) = {} THEN content = <<>>
            ELSE LET s == Greatest(ContentLabels(df))
                     e == IF SentinelsAfter(df, s) = {} THEN Len(df) + 1
                          ELSE Least(SentinelsAfter(df, s))
                 IN  content = JoinLines(BlockLines(df, s + 1, e - 1))

\* a sheet whose content block is not empty and is ended by an Image row that
\* has a row with text after it
C14_Witness ==
    /\ cpc = "done"
    /\ all_posts # <<>>
    /\ all_posts[1].content # <<>>
    /\ LET df == excel_files[1].rows
       IN  /\ Cardinality(ContentLabels(df)) = 1
           /\ \E e \in SentinelsAfter(df, Greatest(ContentLabels(df))) :
                 \E k \in (e + 1)..Len(df) : RowLines(df[k]) # <<>>

\* C15: the k-th extracted asset of a workbook is named
\* post_<id>_image_<k>.<ext>, k counting from 1 in steps of 1 over the
\* extracted assets only; the names of one workbook are pairwise distinct,
\* each is the name of a file written, and workbooks with the same archive
\* and identifier get the same names.
C15_ImageNames ==
    \A j \in 1..Len(all_posts) :
        LET id == all_posts[j].post_id
            names == all_posts[j].post_characteristics.image_files
            archive == excel_files[j].archive
            assets == SelectSeq(archive.entries, LAMBDA e : e.media /\ ~e.folder)
        IN  /\ Len(names) = IF archive.kind = "zip" THEN Len(assets) ELSE 0
            /\ \A k \in 1..Len(names) :
                  /\ names[k] = <<"post_">> \o id \o <<"_image_">> \o DigitsOf(k)
                                \o <<".", (IF assets[k].ext = None THEN "png"
                                           ELSE assets[k].ext[1])>>
                  /\ \E f \in 1..Len(images_dir) : images_dir[f].name = names[k]
            /\ \A k, l \in 1..Len(names) : k # l => names[k] # names[l]
            /\ \A i \in 1..Len(all_posts) :
                  (excel_files[i].archive = archive /\ all_posts[i].post_id = id)
                      => all_posts[i].post_characteristics.image_files = names

\* two assets extracted from an archive whose first entry is no asset, by
\* both workbooks of the post
C15_Witness ==
    /\ cpc = "done"
    /\ Len(all_posts) = 2
    /\ Len(all_posts[1].post_characteristics.image_files) >= 2
    /\ all_posts[2].post_characteristics.image_files # <<>>
    /\ LET first == excel_files[1].archive.entries[1]
       IN  ~first.media \/ first.folder

----------------------------------------------------------------------------
(* Claims about malformed input and the record files *)

\* the files of a directory that parse
WellFormed(fs) == SelectSeq(fs, LAMBDA f : f # Malformed)

\* C18: a malformed input file is skipped with a warning and never ends the
\* run: once a loader has gone through the directory, a warning was printed
\* for every unparsable file, and what was loaded is what the other files of
\* the directory give.
C18_MalformedWarned ==
    apc \notin {"idle", "load", "insights"} =>
        /\ \A i \in 1..Len(files) :
              files[i] = Malformed => \E w \in 1..Len(warnings) : warnings[w] = i
        /\ apc # "generating" => posts = LoadedPosts(WellFormed(files))
        /\ apc = "generating" => insights = InsightsResult(WellFormed(files))

\* the records of the workbooks that could be read, in processing order
ConvertedRecords ==
    LET readable == SelectSeq(excel_files, LAMBDA b : b.readable)
    IN  [j \in 1..Len(readable) |-> ParseLinkedinExcel(readable[j])]

\* C19: after a conversion run every converted workbook has its own record
\* file, holding its record, and all_posts.json holds all converted records
\* in processing order.
C19_RecordPerFile ==
    cpc = "done" =>
        /\ all_posts = ConvertedRecords
        /\ \A j \in 1..Len(all_posts) :
              \E i \in 1..Len(exdir) :
                  /\ exdir[i].name = JsonFilename(all_posts[j])
                  /\ LoadPost(exdir[i].text) = all_posts[j]
        /\ \A j, k \in 1..Len(all_posts) :
              j # k => JsonFilename(all_posts[j]) # JsonFilename(all_posts[k])
        /\ all_posts # <<>> =>
              \E i \in 1..Len(exdir) :
                  /\ exdir[i].name = CombinedFilename
                  /\ LoadAllPosts(exdir[i].text) = all_posts

\* C20: a record the converter produced, written as JSON and read back, has
\* the same value in every field; every record file reads back as a record
\* the converter produced under that name.
C20_RoundTrip ==
    /\ \A j \in 1..Len(all_posts) : LoadPost(DumpPost(all_posts[j])) = all_posts[j]
    /\ \A i \in 1..Len(exdir) :
          exdir[i].name # CombinedFilename =>
              \E j \in 1..Len(all_posts) :
                  /\ exdir[i].name = JsonFilename(all_posts[j])
                  /\ LoadPost(exdir[i].text) = all_posts[j]

\* a record with a date, a rate of two decimals and a content holding line
\* breaks, quotes and a backslash, read back from its file
C20_Witness ==
    /\ cpc = "done"
    /\ \E j \in 1..Len(all_posts) :
          LET data == all_posts[j]
          IN  /\ data.metadata.date # None
              /\ data.engagement.engagement_rate = <<833, 100>>
              /\ \E i \in 1..Len(data.content) : data.content[i] = "\n"
              /\ \E i \in 1..Len(data.content) : data.content[i] = "\""
              /\ \E i \in 1..Len(data.content) : data.content[i] = "\\"
              /\ \E i \in 1..Len(exdir) :
                    /\ exdir[i].name = JsonFilename(data)
                    /\ LoadPost(exdir[i].text) = data

----------------------------------------------------------------------------
(* Claims about what the analysis leaves alone and what a record stores *)

AnalysisSteps == {"timing", "characteristics", "performers", "patterns", "recommend",
                  "insights"}

\* C21: aggregation only reads: no step of the analysis (analyze_timing,
\* analyze_post_characteristics, analyze_top_performers,
\* analyze_content_patterns, generate_recommendations,
\* load_performance_insights) changes the order of the loaded records or a
\* value of a record, nor a file of the directory.
C21_AnalysisOnlyReads ==
    [][(apc \in AnalysisSteps) => (posts' = posts /\ files' = files)]_vars

\* a finished analysis of records that were not loaded in descending order of
\* rate, and are still in the order they were loaded in
C21_Witness ==
    /\ apc = "done"
    /\ posts = LoadedPosts(files)
    /\ \E i \in 1..Len(posts) : \E k \in (i + 1)..Len(posts) :
          RatLess(EngagementRate(posts[i]), EngagementRate(posts[k]))

\* C22: the engagement rate is not stored as a field of the post record: no
\* record the converter made, and no record file it wrote, has an
\* engagement_rate member; the rate is computed from the counts by whoever
\* needs it.
C22_RateNotStored ==
    /\ \A j \in 1..Len(all_posts) :
          "engagement_rate" \notin DOMAIN all_posts[j].engagement
    /\ \A i \in 1..Len(exdir) :
          exdir[i].name # CombinedFilename =>
              LET engagement == Get(exdir[i].text, "engagement")
              IN  \A k \in 1..Len(engagement.members) :
                      engagement.members[k].key # "engagement_rate"

----------------------------------------------------------------------------
(* Claims about a generate.py run *)

\* variant n was generated and its draft saved
VariantDone(n) ==
    /\ \E c \in 1..Len(calls) : calls[c].variant = n /\ calls[c].outcome = "ok"
    /\ \E s \in 1..Len(all_drafts) : all_drafts[s].variant = n

\* C23: a generate.py run writes the context file at most once, only when
\* --context, --update-context and --angle-summary are all given, and only
\* after every requested variant was generated and its draft saved; any other
\* step, and any run in manual mode or without --angle-summary, leaves the
\* context file as it is.
C23_ContextWrittenLast ==
    [][(ctxFile' # ctxFile \/ nUpdates' # nUpdates) =>
          /\ nUpdates = 0
          /\ nUpdates' = 1
          /\ args.mode = "context"
          /\ args.update_context
          /\ args.angle_summary # None
          /\ Len(all_drafts) = args.variants
          /\ \A n \in 1..args.variants : VariantDone(n)]_vars

\* a run of two variants that wrote the context at its end
C23_Witness ==
    /\ gpc = "done"
    /\ nUpdates = 1
    /\ args.variants = 2
    /\ Len(all_drafts) = 2
    /\ lastEntry = FormatEntry(Today, args.angle_summary[1])

\* the headers of the sections of a prompt, and the body under a header
HasSection(p, header) == \E s \in 1..Len(p) : p[s].header = header
BodyOf(p, header) == p[CHOOSE s \in 1..Len(p) : p[s].header = header].body

\* C24: a generate.py run with --variants k, 1 <= k <= 5, and no failure
\* invokes the external generator exactly k times, in variant order, and
\* saves exactly k drafts under pairwise distinct names; for k > 1 the prompt
\* of the i-th invocation carries the i-th predefined variant style, for
\* k = 1 it carries none; a k outside 1..5 is rejected before any invocation.
C24_VariantsInOrder ==
    /\ (args.script = "generate.py" /\ gpc = "done") =>
          LET k == args.variants
          IN  /\ k \in 1..5
              /\ Len(calls) = k
              /\ Len(all_drafts) = k
              /\ \A i \in 1..k :
                    /\ calls[i].variant = i
                    /\ calls[i].outcome = "ok"
                    /\ all_drafts[i].variant = i
                    /\ IF k > 1
                       THEN /\ HasSection(calls[i].prompt, "VARIANT STYLE")
                            /\ BodyOf(calls[i].prompt, "VARIANT STYLE")
                                  = <<VariantStyles[i]>>
                       ELSE ~HasSection(calls[i].prompt, "VARIANT STYLE")
              /\ \A i, j \in 1..k :
                    i # j => all_drafts[i].name # all_drafts[j].name
    /\ (args.script = "generate.py" /\ args.variants \notin 1..5) =>
          /\ calls = <<>>
          /\ all_drafts = <<>>
          /\ gpc \in {"args", "exited"}
          /\ gpc = "exited" => exit = Some(2)

\* a finished run of two variants
C24_Witness ==
    /\ args.script = "generate.py"
    /\ gpc = "done"
    /\ args.variants = 2
    /\ Len(calls) = 2
    /\ all_drafts[1].name # all_drafts[2].name

----------------------------------------------------------------------------
(* Claims about the keys of a context and the context manager *)

\* the pairs of a context other than the history, in their order
OtherPairs(data) == SelectSeq(data, LAMBDA p : p.k # AnglesKey)

\* C25: update_context_with_new_post changes only recent_angles_covered:
\* every other key of the context keeps its value, and every key keeps its
\* place; a context without a history gets the key after all the others.
C25_OnlyAnglesChange ==
    [][/\ OtherPairs(ctxFile') = OtherPairs(ctxFile)
       /\ \A i \in 1..Len(ctxFile) : ctxFile'[i].k = ctxFile[i].k
       /\ Len(ctxFile') = Len(ctxFile) + (IF HasKey(ctxFile, AnglesKey) THEN 0 ELSE 1)
       /\ HasKey(ctxFile', AnglesKey)]_vars

\* an updated context whose history sits between two other keys
C25_Witness ==
    /\ nUpdates >= 1
    /\ Len(ctxFile) = 3
    /\ ctxFile[1] = TopicPair
    /\ ctxFile[2].k = AnglesKey
    /\ ctxFile[2].v[1] = lastEntry
    /\ ctxFile[3] = FreqPair

\* the contexts other than the one the last command named are as it found them
OthersUntouched ==
    \A n \in ContextNames : n # command.name => contexts[n] = before[n]

\* C26: creating a context whose name exists fails with an error and a
\* non-zero exit and leaves the existing file, its angle history included, as
\* it was; creating a new name gives a context with an empty
\* recent_angles_covered history.  No other context is touched.
C26_CreateKeepsExisting ==
    command.command = "create" =>
        /\ OthersUntouched
        /\ IF before[command.name] # None
           THEN /\ contexts[command.name] = before[command.name]
                /\ result.exit # None /\ result.exit[1] # 0
                /\ result.error # ""
           ELSE /\ contexts[command.name] # None
                /\ HasKey(contexts[command.name][1], AnglesKey)
                /\ GetKey(contexts[command.name][1], AnglesKey) = <<>>
                /\ result.exit = Some(0)

\* create on the name of a context with two angles in its history
C26_Witness ==
    /\ command.command = "create"
    /\ before[command.name] = Some(UsedContext)
    /\ Len(Angles(contexts[command.name][1])) = 2
    /\ result.exit = Some(1)

\* the answers that are 'yes' in some case
YesAnswers == {<<a, b, c>> : a \in {"y", "Y"}, b \in {"e", "E"}, c \in {"s", "S"}}

\* C27: delete removes the context file only when the context exists and the
\* answer is 'yes' in any case; with any other answer the file stays as it
\* is; deleting or showing a context that does not exist exits non-zero; no
\* other file changes, and show changes none.
C27_DeleteOnlyOnYes ==
    /\ command.command = "delete" =>
          /\ OthersUntouched
          /\ IF before[command.name] = None
             THEN /\ contexts = before
                  /\ result.exit # None /\ result.exit[1] # 0
             ELSE IF command.answer \in YesAnswers
             THEN contexts[command.name] = None
             ELSE contexts = before
    /\ command.command = "show" =>
          /\ contexts = before
          /\ before[command.name] = None => (result.exit # None /\ result.exit[1] # 0)

\* a context with a history deleted on 'YES', by the second command
C27_Witness ==
    /\ command.command = "delete"
    /\ command.answer = <<"Y", "E", "S">>
    /\ before[command.name] = Some(UsedContext)
    /\ contexts[command.name] = None
    /\ ncommands = 2

----------------------------------------------------------------------------
(* Claims about the two selections of the top quartile *)

\* the records a selection names, by their index in the loaded list
Selected(ps, top_posts) == {ps[top_posts[j]] : j \in 1..Len(top_posts)}

\* C28: for the same valid records, the top posts load_performance_insights
\* selects for the prompt are the records generate_recommendations selects,
\* also with fewer than 3 records or with records of zero impressions.
C28_SameTopQuartile ==
    (apc = "generating" /\ LoadedPosts(files) # <<>>) =>
        /\ ~insights.none
        /\ Selected(LoadedPosts(files), insights.top_posts)
             = Selected(LoadedPosts(files), TopOf(PostsWithRate(LoadedPosts(files))))

----------------------------------------------------------------------------
(* Claims about the extracted images of a conversion run *)

\* the names of the image files extracted for the j-th converted workbook
ExtractedNames(j) ==
    LET names == all_posts[j].post_characteristics.image_files
    IN  {names[k] : k \in 1..Len(names)}

\* C30: across one conversion run the image files extracted for different
\* workbooks never overwrite one another: the names extracted for any two
\* converted workbooks are disjoint, also with an empty post identifier or
\* with the same identifier in two workbooks.
C30_ImagesDisjoint ==
    \A j, k \in 1..Len(all_posts) :
        j # k => ExtractedNames(j) \cap ExtractedNames(k) = {}

----------------------------------------------------------------------------
(* Claims about the converted directory as the loaders read it *)

\* the record files of the directory: every file but all_posts.json
RecordFiles == SelectSeq(exdir, LAMBDA f : f.name # CombinedFilename)

\* the record files whose record has content
CountedFiles ==
    SelectSeq(RecordFiles, LAMBDA f : LoadStr(Get(f.text, "content")) # <<>>)

CountedPosts == [j \in 1..Len(CountedFiles) |-> RecordView(CountedFiles[j].text)]

\* the analyzer has loaded the directory
AnalyzerLoaded ==
    apc \in {"timing", "characteristics", "performers", "patterns", "recommend",
             "done", "crashed"}

\* the directory was converted and then read, all_posts.json included
ListFileRead ==
    /\ cpc = "done"
    /\ apc # "idle"
    /\ \E i \in 1..Len(exdir) : exdir[i].name = CombinedFilename

\* C29 as stated: all_posts.json is never counted as a post by the
\* aggregator or the insight loader, every converted post is counted exactly
\* once, through its own record file, and the list-shaped file does not
\* abort the run.
C29_EveryPostOnce ==
    ListFileRead =>
        LET counted == IF AnalyzerLoaded THEN posts ELSE LoadedPosts(files)
        IN  /\ Len(counted) = Len(all_posts)
            /\ \A j \in 1..Len(all_posts) :
                  \E i \in 1..Len(counted) :
                      counted[i] = RecordView(DumpPost(all_posts[j]))
            /\ apc = "crashed" => counted = <<>>

\* C29, amended: all_posts.json is never counted as a post by the aggregator
\* or the insight loader and does not abort the run: what either of them
\* loads is one post per record file whose record has content, in directory
\* order, each exactly once; the insights are those of the record files
\* alone; the analyzer fails only when no record file has content.
C29_ListNeverCounted ==
    ListFileRead =>
        /\ LoadedPosts(files) = CountedPosts
        /\ AnalyzerLoaded => posts = CountedPosts
        /\ apc = "generating" => insights = InsightsResult(ReadDir(RecordFiles))
        /\ apc = "crashed" => CountedPosts = <<>>
        /\ apc # "exited"

\* an analysis finished on a directory of three record files and
\* all_posts.json, for which a warning was printed
C29_Witness ==
    /\ ListFileRead
    /\ apc = "done"
    /\ Len(posts) = 3
    /\ Len(files) = 4
    /\ warnings # <<>>

====
